---- MODULE Spec2Model ----
(***************************************************************************)
(* A model of wavefit: the harmonic estimation engine (find_harmonics,     *)
(* harmonic_reconstruct), the CSV export (save_csv) and the DataDisplay    *)
(* widget that calls them.                                                 *)
(*                                                                         *)
(* Numbers.  A floating-point value is a pair <<n, d>>: the rational n/d   *)
(* in lowest terms with d > 0, or a non-finite value with d = 0            *)
(* (<<1,0>> = +inf, <<-1,0>> = -inf, <<0,0>> = NaN).  Angles are counted   *)
(* in quanta, TwoPi quanta to the turn; the one place where the rounding   *)
(* of a float decides a result, the % of line 63, rounds to a mantissa of  *)
(* MantBits bits.  Angular frequencies are in quanta per sample (dt = 1).  *)
(***************************************************************************)
EXTENDS Integers, Sequences, FiniteSets, TLC

\* ---------------------------------------------------------------- bounds
MaxN == 4          \* longest array of a capture
MaxH == 2          \* largest harmonic count passed to the engine
MantBits == 2      \* mantissa width of the modelled float format
MaxW == 3          \* longest window given to the window generator alone
MaxEstN == 10      \* largest sample count given to the estimator alone
MaxCalls == 2      \* calls a client makes one after the other
MaxChannels == 2   \* most channels asked of the oscilloscope in one call
MaxWidgets == 4    \* most displays created in one run of the application
MaxScopes == 3     \* addresses at which a TBS2000B oscilloscope answers

\* ------------------------------------------------------ program constants
TwoPi == 16        \* 2*π, in quanta
NumParams == 4     \* parameters of cosine_fit: x0, A, ω, ϕ

\* ------------------------------------------------------------ arithmetic
Abs(x) == IF x < 0 THEN -x ELSE x

Sign(x) == IF x < 0 THEN -1 ELSE IF x > 0 THEN 1 ELSE 0

RECURSIVE Gcd(_, _)
Gcd(a, b) == IF b = 0 THEN a ELSE Gcd(b, a % b)

\* the float num/den
Q(num, den) ==
    IF den = 0 THEN <<Sign(num), 0>>
    ELSE LET g == Gcd(Abs(num), Abs(den))
             s == IF den < 0 THEN -1 ELSE 1
         IN  <<(s * num) \div g, (s * den) \div g>>

Num(i) == <<i, 1>>
NaN == <<0, 0>>
Zero == <<0, 1>>

IsFinite(x) == x[2] # 0
IsNaN(x) == x = NaN

QAdd(a, b) ==
    IF IsFinite(a) /\ IsFinite(b) THEN Q(a[1] * b[2] + b[1] * a[2], a[2] * b[2])
    ELSE IF IsNaN(a) \/ IsNaN(b) THEN NaN
    ELSE IF IsFinite(a) THEN b
    ELSE IF IsFinite(b) THEN a
    ELSE IF a = b THEN a ELSE NaN

QNeg(a) == <<-a[1], a[2]>>
QSub(a, b) == QAdd(a, QNeg(b))
QMul(a, b) == Q(a[1] * b[1], a[2] * b[2])
QDiv(a, b) ==
    IF IsFinite(a) /\ IsFinite(b) THEN Q(a[1] * b[2], a[2] * b[1])
    ELSE IF ~IsFinite(b) THEN (IF IsFinite(a) THEN Zero ELSE NaN)
    ELSE IF b[1] = 0 THEN a ELSE <<a[1] * Sign(b[1]), 0>>
QLess(a, b) == IsFinite(a) /\ IsFinite(b) /\ a[1] * b[2] < b[1] * a[2]

RECURSIVE SumTo(_, _)
SumTo(x, k) == IF k = 0 THEN Zero ELSE QAdd(SumTo(x, k - 1), x[k])

\* numpy's x.sum()
ArraySum(x) == SumTo(x, Len(x))

\* numpy's x.mean(): NaN (with a warning) for an empty array
ArrayMean(x) == QDiv(ArraySum(x), Num(Len(x)))

AllFinite(x) == \A k \in 1..Len(x) : IsFinite(x[k])

\* ------------------------------------------------ float rounding and %
RECURSIVE Ulp(_)
Ulp(v) == IF v < 2^MantBits THEN 1 ELSE 2 * Ulp(v \div 2)

\* v >= 0 rounded to the nearest representable float, ties to even
RoundNat(v) ==
    LET u == Ulp(v)
        q == v \div u
        r == v % u
    IN  IF 2 * r > u \/ (2 * r = u /\ q % 2 = 1) THEN (q + 1) * u ELSE q * u

Round(v) == IF v < 0 THEN -RoundNat(-v) ELSE RoundNat(v)

Representable(v) == Round(v) = v

\* C's fmod: the exact remainder, with the sign of x
Fmod(x, m) == IF x < 0 THEN -((-x) % m) ELSE x % m

\* x % m on floats (m > 0): fmod, then one rounded addition of m when the
\* remainder is negative
FloatMod(x, m) ==
    IF ~IsFinite(x) THEN NaN
    ELSE LET r == Fmod(x[1], m)
         IN  IF r < 0 THEN Num(Round(r + m)) ELSE Num(r)

\* ------------------------------------------------------------ the arrays
\* t[k] = t0 + k*dt with dt = 1, len samples
TimeArray(len, t0) == [k \in 1..len |-> Num(t0 + k - 1)]

RefShapes == {"zero", "const", "alt", "nan"}

\* a reference channel: all zero, constant, oscillating, or holding a NaN
RefArray(shape, len) ==
    [k \in 1..len |->
        CASE shape = "zero"  -> Zero
          [] shape = "const" -> Num(1)
          [] shape = "alt"   -> Num((k - 1) % 2)
          [] shape = "nan"   -> IF k = 1 THEN NaN ELSE Zero]

SigShapes == {"alt", "nan"}

\* a signal channel: oscillating, or holding a NaN
SigArray(shape, len) ==
    [k \in 1..len |->
        CASE shape = "alt" -> Num(k % 2)
          [] shape = "nan" -> IF k = len THEN NaN ELSE Num(k % 2)]

\* the lengths a channel takes beside a time array of len samples: equal,
\* one short, or a single sample
ChannelLens(len) == {k \in {1, len - 1, len} : k >= 0}

\* the captures (t, ref, signal) handed to the engine; a capture of full
\* length may start at t[0] = 1
Captures ==
    {<<TimeArray(len, t0), RefArray(rs, rl), SigArray(ss, sl)>> :
        len \in 0..MaxN, t0 \in {0, 1}, rl \in 0..MaxN, sl \in 0..MaxN,
        rs \in RefShapes, ss \in SigShapes}

GoodCapture(c) ==
    /\ Len(c[2]) \in ChannelLens(Len(c[1]))
    /\ Len(c[3]) \in ChannelLens(Len(c[1]))
    /\ c[1] # <<>> /\ c[1][1] # Zero => Len(c[1]) = MaxN

HarmonicCounts == 0..MaxH

\* ------------------------------------------------------ window functions
\* cos(2π·p/q) where it is rational (q in {1, 2, 3, 4, 6})
CosTurn(p, q) ==
    LET a == ((12 * p) \div q) % 12
    IN  CASE a = 0 -> Num(1)
          [] a \in {2, 10} -> Q(1, 2)
          [] a \in {3, 9} -> Zero
          [] a \in {4, 8} -> Q(-1, 2)
          [] a = 6 -> Num(-1)
          [] OTHER -> Zero

\* np.bartlett(len): the triangular window
Bartlett(len) ==
    [k \in 1..len |-> IF len = 1 THEN Num(1)
                      ELSE QSub(Num(1), Q(Abs(2 * (k - 1) - (len - 1)), len - 1))]

\* np.hanning(len) = 0.5 - 0.5 cos(2π k/(len-1)), k = 0..len-1; exact for
\* len <= 5 and len = 7, where the cosines are rational (the triangular
\* window stands in for the other lengths)
Hanning(len) ==
    IF len = 1 THEN <<Num(1)>>
    ELSE IF len - 1 \in {1, 2, 3, 4, 6}
    THEN [k \in 1..len |-> QSub(Q(1, 2), QMul(Q(1, 2), CosTurn(k - 1, len - 1)))]
    ELSE Bartlett(len)

\* np.ones(len): the rectangular window
Ones(len) == [k \in 1..len |-> Num(1)]

WindowKinds == {"hanning", "ones"}

WindowFn(kind, len) == IF kind = "hanning" THEN Hanning(len) ELSE Ones(len)

\* window /= window.sum(): the weights scaled to sum to 1
NormalizeToOne(w) ==
    LET factor == QDiv(Num(1), ArraySum(w))
    IN  [k \in 1..Len(w) |-> QMul(w[k], factor)]

\* window *= 2 / window.sum()
Normalize(w) ==
    LET factor == QDiv(Num(2), ArraySum(w))
    IN  [k \in 1..Len(w) |-> QMul(w[k], factor)]

\* numpy broadcasting of two 1-d shapes
Broadcastable(a, b) == a = b \/ a = 1 \/ b = 1

BroadcastLen(a, b) == IF a = 1 THEN b ELSE a

At(x, k) == IF Len(x) = 1 THEN x[1] ELSE x[k]

\* (x - x.mean()) * w, defined when the shapes broadcast
DemeanWindow(x, w) ==
    LET m == ArrayMean(x)
    IN  [k \in 1..BroadcastLen(Len(x), Len(w)) |-> QMul(QSub(At(x, k), m), At(w, k))]

\* ------------------------------------------------------------- the state
VARIABLES
    pc,           \* where find_harmonics stands: "idle", a line "L39".."L80",
                  \* "returned" or "raised"
    caller,       \* who called it: "api" or "display"
    t, ref, signal, harmonics, window,    \* its arguments
    d,            \* the result dict it builds
    dt, N, offset, win, ref_w, p0, popt, sig, n,   \* its locals
    ret,          \* what the caller received: {} (nothing) or {d}
    err,          \* the exception that ended the call, "" for none
    solverCalls,  \* how often this call invoked optimize.curve_fit
    solverSeed,   \* the seeds it was invoked with, in order
    recon,        \* the client's harmonic_reconstruct(t, d): {} or {result}
    csv,          \* the outcome of the last save_csv: {} or {outcome}
    dpc,          \* where DataDisplay stands: "none", a line "L78".."L128",
                  \* "shown" (constructed) or "failed" (__init__ raised)
    data,         \* DataDisplay.data: the columns of the capture
    num_harmonics,\* DataDisplay.num_harmonics
    attrs,        \* the attributes set on the DataDisplay so far
    detail_plot,  \* DataDisplay.detail_plot
    self_harmonics, \* DataDisplay.harmonics: {} or {d}
    sig_fit,      \* DataDisplay.sig_fit: {} or {reconstruction}
    table,        \* the cells <<row, column>> of DataDisplay.table that are set
    dn,           \* the n of the table loop of lines 110-122
    plotted,      \* what draw_plot drew: "none", "detail" or "wide"
    derr,         \* the exception that ended DataDisplay.__init__ or the
                  \* slot of a pressed button, "" for none
    wpc,          \* the window generator alone: "off", "raw", "once", "twice"
    wraw,         \* the weights the window-shape function returned
    wout,         \* those weights normalized
    wout2,        \* and normalized once more
    epc,          \* the frequency estimator alone: "off", "spectrum", "done",
                  \* "raised"
    eN,           \* its sample count
    espec,        \* the |rfft| it searches
    ei,           \* the bin it selected
    ef,           \* f[i], in cycles per sample time
    ewg,          \* the coarse angular frequency ωg
    edt,          \* its sample spacing dt
    calls,        \* the calls a client made one after the other so far
    last,         \* the arguments of the call before the running one
    parked,       \* the frame of the computation that is not running, <<>>
                  \* where there is one computation only
    mixed,        \* the two computations were switched while both were
                  \* under way
    order,        \* the harmonics computed so far by a loop that takes
                  \* them in any order, in the order it took them
    acq,          \* the oscilloscope's acquisition state: "RUN" or "STOP"
    rpc,          \* where TBS2000B.read_channels stands: "idle", a line
                  \* "L77".."L92", "returned" or "raised"
    channels,     \* its argument
    found,        \* the acquisition state when it was called
    running,      \* its local running
    ci,           \* the place in channels of the channel its loop is at
    output,       \* its local output
    curves,       \* the acquisition state at each 'CURV?' it sent
    rerr,         \* the exception that ended it, "" for none
    tabs,         \* the widgets of the QTabWidget's tabs, by tab index
    pages,        \* Tabs.pages
    cur,          \* QTabWidget.currentIndex(), -1 with no tab
    deleted,      \* the widgets deleteLater() was called on
    made,         \* how many widgets were created so far
    picked,       \* what the last current_tab() returned: {} or {widget}
    terr,         \* the exception the last Tabs method raised, "" for none
    oscope,       \* MainWindow.oscope: -1 not set, 0 None, k the TBS2000B
                  \* made for address k
    ETH_IP,       \* MainWindow.ETH_IP: 0 for False, else the address stored
    mpc,          \* where the Ethernet slots of MainWindow stand: "idle" or a
                  \* line "L283".."L313"
    viaAcquire,   \* ethernet_setup was called by ethernet_acquire
    lastId,       \* the last get_oscope: -1 none yet, 0 raised, k returned
                  \* the oscilloscope at address k
    readFrom,     \* the oscope this ethernet_acquire read: {} or {oscope}
    got,          \* what read_channels gave it: "", "raised", "short", "full"
    dialog,       \* the dialog error_popup showed last in this slot: "",
                  \* "exception" or "message"
    merr,         \* the exception that left the slot, "" for none
    added         \* this slot added a tab

argVars == <<t, ref, signal, harmonics, window>>
locVars == <<dt, N, offset, win, ref_w, p0, popt, sig, n>>
solverVars == <<solverCalls, solverSeed>>
engineVars == <<pc, caller, argVars, d, locVars, ret, err, solverVars>>
clientVars == <<recon, csv>>
displayVars == <<dpc, data, num_harmonics, attrs, detail_plot, self_harmonics,
                 sig_fit, table, dn, plotted, derr>>
windowVars == <<wpc, wraw, wout, wout2>>
estimatorVars == <<epc, eN, espec, ei, ef, ewg, edt>>
repeatVars == <<calls, last>>
pairVars == <<parked, mixed>>
orderVars == <<order>>
scopeVars == <<acq, rpc, channels, found, running, ci, output, curves, rerr>>
tabVars == <<tabs, pages, cur, deleted, made, picked, terr>>
ethVars == <<oscope, ETH_IP, mpc, viaAcquire, lastId, readFrom, got, dialog, merr,
            added>>
deviceVars == <<scopeVars, tabVars, ethVars>>
notEthVars == <<pc, caller, t, ref, signal, harmonics, window, d, dt, N, offset,
                win, ref_w, p0, popt, sig, n, ret, err, solverCalls, solverSeed,
                recon, csv, dpc, data, num_harmonics, attrs, detail_plot,
                self_harmonics, sig_fit, table, dn, plotted, derr, wpc, wraw,
                wout, wout2, epc, eN, espec, ei, ef, ewg, edt, calls, last,
                parked, mixed, order, scopeVars, tabVars>>
notScopeVars == <<pc, caller, t, ref, signal, harmonics, window, d, dt, N, offset,
                  win, ref_w, p0, popt, sig, n, ret, err, solverCalls, solverSeed,
                  recon, csv, dpc, data, num_harmonics, attrs, detail_plot,
                  self_harmonics, sig_fit, table, dn, plotted, derr, wpc, wraw,
                  wout, wout2, epc, eN, espec, ei, ef, ewg, edt, calls, last,
                  parked, mixed, order, tabVars, ethVars>>
notTabVars == <<pc, caller, t, ref, signal, harmonics, window, d, dt, N, offset,
                win, ref_w, p0, popt, sig, n, ret, err, solverCalls, solverSeed,
                recon, csv, dpc, data, num_harmonics, attrs, detail_plot,
                self_harmonics, sig_fit, table, dn, plotted, derr, wpc, wraw,
                wout, wout2, epc, eN, espec, ei, ef, ewg, edt, calls, last,
                parked, mixed, order, scopeVars, ethVars>>
extraVars == <<repeatVars, pairVars, orderVars, deviceVars>>
pureVars == <<windowVars, estimatorVars, extraVars>>

\* --------------------------------------------------------- the result dict
Key(name) == <<name, 0>>
HKey(name, k) == <<name, k>>

Put(dict, key, val) ==
    [kk \in DOMAIN dict \cup {key} |-> IF kk = key THEN val ELSE dict[kk]]

EmptyDict == [kk \in {} |-> 0]

RefKeys == {Key("ref offset"), Key("ref A"), Key("ref w"), Key("ref phi"),
            Key("ref error")}

HarmonicNames == {"w", "A~", "A", "phi"}

HarmonicKeys(k) == {HKey(name, k) : name \in HarmonicNames}

NoParams == [offset |-> Zero, A |-> Zero, w |-> Zero, phi |-> Zero]

\* ------------------------------------------------- the frequency estimator
\* The outputs np.fft.rfft can give for x: len \div 2 + 1 bins <<|X|, arg X>>.
\* All bins are zero for a zero input and NaN for an input holding a
\* non-finite sample; any other input has a dominant bin p of magnitude 2
\* and a second bin q of magnitude 1.
Rfft(x) ==
    LET bins == 0..(Len(x) \div 2)
    IN  IF ~AllFinite(x) THEN {[j \in bins |-> <<NaN, NaN>>]}
        ELSE IF \A k \in 1..Len(x) : x[k] = Zero THEN {[j \in bins |-> <<Zero, Zero>>]}
        ELSE {[j \in bins |-> IF j = p THEN <<Num(2), Num(a)>>
                              ELSE IF j = q THEN <<Num(1), Zero>>
                              ELSE <<Zero, Zero>>] :
                 p \in bins, q \in bins, a \in {-(TwoPi \div 4)}}

\* the spectrum kept whole, the slice [:len] left out
TruncateNone(x, len) == x

\* x[:len], for a spectrum indexed from 0
Truncate(x, len) == [j \in {i \in DOMAIN x : i < len} |-> x[j]]

\* np.fft.fftfreq(len, dt)[:len//2], in cycles per sample time
FftFreq(len, step) == [j \in 0..(len \div 2 - 1) |-> QDiv(Num(j), QMul(Num(len), step))]

\* np.argmax(abs(x)): the first index of the largest magnitude; a NaN counts
\* as the largest
ArgMax(x) ==
    CHOOSE i \in DOMAIN x :
        /\ \A j \in DOMAIN x : j < i =>
              ~IsNaN(x[j][1]) /\ (IsNaN(x[i][1]) \/ QLess(x[j][1], x[i][1]))
        /\ \A j \in DOMAIN x : j > i => IsNaN(x[i][1]) \/ ~QLess(x[i][1], x[j][1])

\* 2*π*f, in quanta per sample time
AngularFreq(f) == IF IsFinite(f) THEN Num((TwoPi * f[1]) \div f[2]) ELSE NaN

\* lines 48 and 52: the peak among the first len//2 bins of the spectrum
PeakBin(spectrum, len) == ArgMax(Truncate(spectrum, len \div 2))

\* lines 53-56: the seed (offset, |A|, ωg, arg A - ωg t[0]) from the peak
\* bin A = ref_f[i] and its frequency f[i]
Seed(off, A, fi, t0) ==
    LET wg == AngularFreq(fi)
    IN  [offset |-> off, A |-> A[1], w |-> wg, phi |-> QSub(A[2], QMul(wg, t0))]

\* ------------------------------------------------------------ the solver
\* cosine_fit(t, *p) = ref at every sample: seen without evaluating a cosine
\* only when the amplitude is zero
ZeroResidual(rr, p) == p.A = Zero /\ \A k \in 1..Len(rr) : rr[k] = p.offset

\* the phases a converged fit may report
SolverPhases ==
    {Num(v) : v \in {-(TwoPi + TwoPi \div 2), -1, 0, 6, TwoPi, TwoPi + TwoPi \div 2}}

\* the parameters a converged fit may report from a seed
SolverResults(seed) ==
    {[offset |-> seed.offset, A |-> a, w |-> w, phi |-> ph] :
        a \in {seed.A}, w \in {seed.w, QAdd(seed.w, Num(1))},
        ph \in SolverPhases}

\* optimize.curve_fit(cosine_fit, t, ref, p0): the outcomes, as <<exception,
\* popt>>.  Non-finite data is refused (check_finite), fewer residuals than
\* parameters is refused, a seed of zero residual is returned as it is, and
\* any other fit either fails to converge or reports some parameters.
CurveFit(tt, rr, seed) ==
    IF ~AllFinite(tt) \/ ~AllFinite(rr) THEN {<<"ValueError", NoParams>>}
    ELSE IF NumParams > Len(tt) THEN {<<"TypeError", NoParams>>}
    ELSE IF ZeroResidual(rr, seed) THEN {<<"", seed>>}
    ELSE {<<"RuntimeError", NoParams>>} \cup {<<"", p>> : p \in SolverResults(seed)}

\* (ref - cosine_fit(t, *popt)).std(): zero for a zero residual, some
\* positive value otherwise
ResidualStd(rr, p) == IF ZeroResidual(rr, p) THEN Zero ELSE Num(1)

\* ------------------------------------------------- the harmonic extractor
\* (sig * exp(-1j*(ω*t + n*ϕ0))).sum(), as the sequence of its terms: the
\* coefficient sig[k] and the angle ω t[k] + n ϕ0 of each
CAmp(ss, tt, w, k, phi0) ==
    [j \in 1..Len(ss) |->
        [c |-> ss[j], th |-> QAdd(QMul(w, At(tt, j)), QMul(Num(k), phi0))]]

\* abs(A) and np.angle(A) of such a sum, unevaluated
CAbs(z) == [op |-> "abs", z |-> z]
CAngle(z) == [op |-> "angle", z |-> z]

CFinite(z) == \A j \in 1..Len(z) : IsFinite(z[j].c) /\ IsFinite(z[j].th)

\* ------------------------------------------------------- find_harmonics
Raise(e) ==
    /\ pc' = "raised"
    /\ err' = e

\* the call with d a dict that outlives it, as a mutable default would
EnterStale(tt, rr, ss, hh, ww, who) ==
    /\ pc' = "L39"
    /\ caller' = who
    /\ t' = tt /\ ref' = rr /\ signal' = ss /\ harmonics' = hh /\ window' = ww
    /\ d' = Put(d, Key("num harmonics"), hh)
    /\ dt' = Zero /\ N' = 0 /\ offset' = Zero /\ win' = <<>> /\ ref_w' = <<>>
    /\ p0' = NoParams /\ popt' = NoParams /\ sig' = <<>> /\ n' = 0
    /\ ret' = {} /\ err' = ""
    /\ solverCalls' = 0 /\ solverSeed' = <<>>

\* line 36-37: the call, d = {"num harmonics": harmonics}
Enter(tt, rr, ss, hh, ww, who) ==
    /\ pc' = "L39"
    /\ caller' = who
    /\ t' = tt /\ ref' = rr /\ signal' = ss /\ harmonics' = hh /\ window' = ww
    /\ d' = Put(EmptyDict, Key("num harmonics"), hh)
    /\ dt' = Zero /\ N' = 0 /\ offset' = Zero /\ win' = <<>> /\ ref_w' = <<>>
    /\ p0' = NoParams /\ popt' = NoParams /\ sig' = <<>> /\ n' = 0
    /\ ret' = {} /\ err' = ""
    /\ solverCalls' = 0 /\ solverSeed' = <<>>

\* lines 39-40: dt = t[1] - t[0]; N = len(t)
SampleSpacing ==
    /\ pc = "L39"
    /\ IF Len(t) < 2
       THEN Raise("IndexError") /\ UNCHANGED <<dt, N>>
       ELSE pc' = "L42" /\ dt' = QSub(t[2], t[1]) /\ N' = Len(t) /\ UNCHANGED err
    /\ UNCHANGED <<caller, argVars, d, offset, win, ref_w, p0, popt, sig, n, ret,
                   solverVars>>
    /\ UNCHANGED <<clientVars, displayVars, pureVars>>

\* lines 42-45: the mean of ref, the normalized window, the windowed ref
WindowReference ==
    /\ pc = "L42"
    /\ offset' = ArrayMean(ref)
    /\ win' = Normalize(WindowFn(window, N))
    /\ IF Broadcastable(Len(ref), N)
       THEN pc' = "L48" /\ ref_w' = DemeanWindow(ref, win') /\ UNCHANGED err
       ELSE Raise("ValueError") /\ UNCHANGED ref_w
    /\ UNCHANGED <<caller, argVars, d, dt, N, p0, popt, sig, n, ret, solverVars>>
    /\ UNCHANGED <<clientVars, displayVars, pureVars>>

\* lines 48-56: the spectrum, its first N//2 bins, the peak, the seed
EstimateFrequency ==
    /\ pc = "L48"
    /\ \E spectrum \in Rfft(ref_w) :
          LET i == PeakBin(spectrum, N)
              f == FftFreq(N, dt)
          IN  IF i \in DOMAIN f
              THEN /\ p0' = Seed(offset, spectrum[i], f[i], t[1])
                   /\ pc' = "L59"
                   /\ UNCHANGED err
              ELSE Raise("IndexError") /\ UNCHANGED p0
    /\ UNCHANGED <<caller, argVars, d, dt, N, offset, win, ref_w, popt, sig, n, ret,
                   solverVars>>
    /\ UNCHANGED <<clientVars, displayVars, pureVars>>

\* line 59 with a fit that did not converge tried again from another seed
FitReferenceRetry ==
    /\ pc = "L59"
    /\ solverCalls' = solverCalls + 1
    /\ solverSeed' = Append(solverSeed, p0)
    /\ \E out \in CurveFit(t, ref, p0) :
          IF out[1] = ""
          THEN pc' = "L62" /\ popt' = out[2] /\ UNCHANGED <<err, p0>>
          ELSE IF out[1] = "RuntimeError" /\ solverCalls < 2
          THEN /\ p0' = [p0 EXCEPT !.phi = QAdd(p0.phi, Num(1))]
               /\ UNCHANGED <<pc, err, popt>>
          ELSE Raise(out[1]) /\ UNCHANGED <<popt, p0>>
    /\ UNCHANGED <<caller, argVars, d, dt, N, offset, win, ref_w, sig, n, ret>>
    /\ UNCHANGED <<clientVars, displayVars, pureVars>>

\* line 59: popt, pconv = optimize.curve_fit(cosine_fit, t, ref, p0)
FitReference ==
    /\ pc = "L59"
    /\ solverCalls' = solverCalls + 1
    /\ solverSeed' = Append(solverSeed, p0)
    /\ \E out \in CurveFit(t, ref, p0) :
          IF out[1] = ""
          THEN pc' = "L62" /\ popt' = out[2] /\ UNCHANGED err
          ELSE Raise(out[1]) /\ UNCHANGED popt
    /\ UNCHANGED <<caller, argVars, d, dt, N, offset, win, ref_w, p0, sig, n, ret>>
    /\ UNCHANGED <<clientVars, displayVars, pureVars>>

\* lines 62-64 on a dict: popt stored, the phase wrapped by % (2*π), the
\* residual
StoreFit(dict, rr, fit) ==
    LET d1 == Put(dict, Key("ref offset"), fit.offset)
        d2 == Put(d1, Key("ref A"), fit.A)
        d3 == Put(d2, Key("ref w"), fit.w)
        d4 == Put(d3, Key("ref phi"), fit.phi)
        d5 == Put(d4, Key("ref phi"), FloatMod(d4[Key("ref phi")], TwoPi))
    IN  Put(d5, Key("ref error"), ResidualStd(rr, fit))

\* lines 62-64: the reference fit goes into d
\* lines 62-64 storing the estimator's seed in place of the fit
UpdateDataSeed ==
    /\ pc = "L62"
    /\ d' = StoreFit(d, ref, p0)
    /\ pc' = "L69"
    /\ UNCHANGED <<caller, argVars, locVars, ret, err, solverVars>>
    /\ UNCHANGED <<clientVars, displayVars, pureVars>>

UpdateData ==
    /\ pc = "L62"
    /\ d' = StoreFit(d, ref, popt)
    /\ pc' = "L69"
    /\ UNCHANGED <<caller, argVars, locVars, ret, err, solverVars>>
    /\ UNCHANGED <<clientVars, displayVars, pureVars>>

\* line 69 with a window of its own, window(N) as the shape function gives it
WindowSignalOwnWindow ==
    /\ pc = "L69"
    /\ IF Broadcastable(Len(signal), Len(win))
       THEN /\ pc' = "L72"
            /\ sig' = DemeanWindow(signal, WindowFn(window, N))
            /\ n' = 1
            /\ UNCHANGED err
       ELSE Raise("ValueError") /\ UNCHANGED <<sig, n>>
    /\ UNCHANGED <<caller, argVars, d, dt, N, offset, win, ref_w, p0, popt, ret,
                   solverVars>>
    /\ UNCHANGED <<clientVars, displayVars, pureVars>>

\* line 69 with the mean taken off the caller's array: signal -= signal.mean()
WindowSignalInPlace ==
    /\ pc = "L69"
    /\ signal' = [k \in 1..Len(signal) |-> QSub(signal[k], ArrayMean(signal))]
    /\ IF Broadcastable(Len(signal), Len(win))
       THEN pc' = "L72" /\ sig' = DemeanWindow(signal, win) /\ n' = 1 /\ UNCHANGED err
       ELSE Raise("ValueError") /\ UNCHANGED <<sig, n>>
    /\ UNCHANGED <<caller, t, ref, harmonics, window, d, dt, N, offset, win, ref_w, p0,
                   popt, ret, solverVars>>
    /\ UNCHANGED <<clientVars, displayVars, pureVars>>

\* line 69: sig = (signal - signal.mean()) * window
WindowSignal ==
    /\ pc = "L69"
    /\ IF Broadcastable(Len(signal), Len(win))
       THEN pc' = "L72" /\ sig' = DemeanWindow(signal, win) /\ n' = 1 /\ UNCHANGED err
       ELSE Raise("ValueError") /\ UNCHANGED <<sig, n>>
    /\ UNCHANGED <<caller, argVars, d, dt, N, offset, win, ref_w, p0, popt, ret,
                   solverVars>>
    /\ UNCHANGED <<clientVars, displayVars, pureVars>>

\* lines 72-78 with the seed frequency ωg in the place of the refined ω0
ExtractHarmonicSeed ==
    /\ pc = "L72"
    /\ n <= harmonics
    /\ LET phi0 == d[Key("ref phi")]
           w == QMul(Num(n), p0.w)
           A == CAmp(sig, t, w, n, phi0)
           d1 == Put(d, HKey("w", n), w)
           d2 == Put(d1, HKey("A~", n), A)
           d3 == Put(d2, HKey("A", n), CAbs(A))
       IN  d' = Put(d3, HKey("phi", n), CAngle(A))
    /\ n' = n + 1
    /\ UNCHANGED <<pc, caller, argVars, dt, N, offset, win, ref_w, p0, popt, sig, ret,
                   err, solverVars>>
    /\ UNCHANGED <<clientVars, displayVars, pureVars>>

\* lines 73-78 with ω kept as a running sum, ω0 added in every pass
HarmonicRecordRunning(dict, ss, tt, k) ==
    LET w0 == dict[Key("ref w")]
        phi0 == dict[Key("ref phi")]
        passes == Cardinality({kk \in DOMAIN dict : kk[1] = "w"})
        w == QMul(Num(passes + 1), w0)
        A == CAmp(ss, tt, w, k, phi0)
        d1 == Put(dict, HKey("w", k), w)
        d2 == Put(d1, HKey("A~", k), A)
        d3 == Put(d2, HKey("A", k), CAbs(A))
    IN  Put(d3, HKey("phi", k), CAngle(A))

\* lines 73-78 on a dict: the record of harmonic k from the windowed
\* signal ss, the times tt and the ω0, ϕ0 of line 66
HarmonicRecord(dict, ss, tt, k) ==
    LET w0 == dict[Key("ref w")]
        phi0 == dict[Key("ref phi")]
        w == QMul(Num(k), w0)
        A == CAmp(ss, tt, w, k, phi0)
        d1 == Put(dict, HKey("w", k), w)
        d2 == Put(d1, HKey("A~", k), A)
        d3 == Put(d2, HKey("A", k), CAbs(A))
    IN  Put(d3, HKey("phi", k), CAngle(A))

\* lines 72-78: one pass of for n in range(1, harmonics + 1)
ExtractHarmonic ==
    /\ pc = "L72"
    /\ n <= harmonics
    /\ d' = HarmonicRecord(d, sig, t, n)
    /\ n' = n + 1
    /\ UNCHANGED <<pc, caller, argVars, dt, N, offset, win, ref_w, p0, popt, sig, ret,
                   err, solverVars>>
    /\ UNCHANGED <<clientVars, displayVars, pureVars>>

\* line 80 inside the loop: d returned before every harmonic is in it
ReturnResultEarly ==
    /\ pc = "L72"
    /\ pc' = "returned"
    /\ ret' = {d}
    /\ UNCHANGED <<caller, argVars, d, locVars, err, solverVars>>
    /\ UNCHANGED <<clientVars, displayVars, pureVars>>

\* line 80: return d
ReturnResult ==
    /\ pc = "L72"
    /\ n > harmonics
    /\ pc' = "returned"
    /\ ret' = {d}
    /\ UNCHANGED <<caller, argVars, d, locVars, err, solverVars>>
    /\ UNCHANGED <<clientVars, displayVars, pureVars>>

\* the frame of a finished call is dropped
ResetEngine ==
    /\ pc' = "idle" /\ caller' = "api"
    /\ t' = <<>> /\ ref' = <<>> /\ signal' = <<>> /\ harmonics' = 0
    /\ window' = "hanning"
    /\ d' = EmptyDict
    /\ dt' = Zero /\ N' = 0 /\ offset' = Zero /\ win' = <<>> /\ ref_w' = <<>>
    /\ p0' = NoParams /\ popt' = NoParams /\ sig' = <<>> /\ n' = 0
    /\ ret' = {} /\ err' = ""
    /\ solverCalls' = 0 /\ solverSeed' = <<>>

\* ------------------------------------------------- harmonic_reconstruct
\* lines 82-94 with ϕ0 added once to every term, not n times
HarmonicReconstructOnePhase(tt, dict) ==
    LET phi0 == dict[Key("ref phi")]
        count == dict[Key("num harmonics")]
    IN  [scalar |-> count < 1,
         len |-> Len(tt),
         terms |-> [k \in 1..count |->
                      [A |-> dict[HKey("A", k)], w |-> dict[HKey("w", k)],
                       phi |-> dict[HKey("phi", k)], shift |-> phi0]]]

\* lines 82-94: x = 0, then x += A cos(ω t + ϕ + n ϕ0) for n in
\* range(1, d['num harmonics'] + 1).  The sum is kept as its terms; with no
\* term x is still the int 0 and not an array.
HarmonicReconstruct(tt, dict) ==
    LET phi0 == dict[Key("ref phi")]
        count == dict[Key("num harmonics")]
    IN  [scalar |-> count < 1,
         len |-> Len(tt),
         terms |-> [k \in 1..count |->
                      [A |-> dict[HKey("A", k)], w |-> dict[HKey("w", k)],
                       phi |-> dict[HKey("phi", k)], shift |-> QMul(Num(k), phi0)]]]

\* ----------------------------------------------------------------- save_csv
\* len(col) of a column of save_csv: -1 stands for a scalar, which has none
ColLen(x) == IF x.scalar THEN -1 ELSE x.len

ArrayCol(x) == [scalar |-> FALSE, len |-> Len(x)]

Max(S) == CHOOSE x \in S : \A y \in S : y <= x

\* lines 223-236: the data columns, each of ref and signal followed by its
\* fit when there is one
RECURSIVE DataCols(_, _, _)
DataCols(cols, fit, i) ==
    IF i > Len(cols) THEN <<>>
    ELSE <<ColLen(cols[i])>>
         \o (IF i > 1 /\ i - 1 <= Len(fit) THEN <<ColLen(fit[i - 1])>> ELSE <<>>)
         \o DataCols(cols, fit, i + 1)

\* lines 238-250: the five columns of the harmonic table
HarmonicTable(dict) ==
    LET count == dict[Key("num harmonics")]
        rows == IF count < 1 THEN {} ELSE 1..count
    IN  [idx   |-> [k \in rows |-> <<"n", k>>] \o << <<"ref", 0>> >>,
         freq  |-> [k \in rows |-> QDiv(dict[HKey("w", k)], Num(TwoPi))]
                   \o <<QDiv(dict[Key("ref w")], Num(TwoPi))>>,
         amp   |-> [k \in rows |-> dict[HKey("A", k)]] \o <<dict[Key("ref A")]>>,
         phase |-> [k \in rows |-> dict[HKey("phi", k)]] \o <<dict[Key("ref phi")]>>]

\* lines 225-232: the heading of data column i (counted from 0)
CsvHeading(i) ==
    CASE i = 0 -> "t (s)"
      [] i = 1 -> "V_ref"
      [] i = 2 -> "V_sig"
      [] OTHER -> "V_sig2"

\* lines 223-236: the headings and the cells of the data columns, the cell
\* of sample k of a column being <<heading, k>>
RECURSIVE CsvData(_, _, _)
CsvData(cols, fit, i) ==
    IF i > Len(cols) THEN <<>>
    ELSE LET h == CsvHeading(i - 1)
             column(hd, x) ==
                 [head |-> hd,
                  cells |-> IF x.scalar THEN <<>> ELSE [k \in 1..x.len |-> <<hd, k>>]]
         IN  <<column(h, cols[i])>>
             \o (IF i > 1 /\ i - 1 <= Len(fit)
                 THEN <<column(h \o " fit", fit[i - 1])>> ELSE <<>>)
             \o CsvData(cols, fit, i + 1)

\* lines 238-250: the headings and the cells of the harmonic table
CsvTable(harm) ==
    IF harm = {} THEN <<>>
    ELSE LET tab == HarmonicTable(CHOOSE x \in harm : TRUE)
         IN  <<[head |-> "", cells |-> <<>>],
               [head |-> "Harmonic", cells |-> tab.idx],
               [head |-> "Frequency (Hz)", cells |-> tab.freq],
               [head |-> "Amplitude (V)", cells |-> tab.amp],
               [head |-> "Phase Delay (rad)", cells |-> tab.phase]>>

\* lines 256-265 with the empty cells left out of the row
CsvRowPacked(all, i) ==
    LET F[j \in 0..Len(all)] ==
            IF j = 0 THEN <<>>
            ELSE IF i <= Len(all[j].cells) THEN Append(F[j - 1], all[j].cells[i])
            ELSE F[j - 1]
    IN  F[Len(all)]

\* lines 256-265: row i of the file, a cell for every column up to the
\* last one that has a value in this row, "" where a column has none
CsvRow(all, i) ==
    LET items == [j \in 1..Len(all) |->
                     IF i <= Len(all[j].cells) THEN all[j].cells[i] ELSE ""]
        filled == {j \in 1..Len(all) : i <= Len(all[j].cells)}
        lnz == IF filled = {} THEN 1 ELSE Max(filled)
    IN  SubSeq(items, 1, lnz)

\* save_csv(fn, data, fit, harmonics), harm = {} for harmonics=None: the
\* exception, the length of every column, the harmonic table, the heading
\* line and the rows written
SaveCsv(cols, fit, harm) ==
    LET lens == DataCols(cols, fit, 1)
                \o (IF harm = {} THEN <<>>
                    ELSE LET h == CHOOSE x \in harm : TRUE
                         IN  <<0, h[Key("num harmonics")] + 1,
                               h[Key("num harmonics")] + 1,
                               h[Key("num harmonics")] + 1,
                               h[Key("num harmonics")] + 1>>)
        tab == IF harm = {} THEN <<>>
               ELSE <<HarmonicTable(CHOOSE x \in harm : TRUE)>>
        all == CsvData(cols, fit, 1) \o CsvTable(harm)
        head == [j \in 1..Len(all) |-> all[j].head]
    IN  IF \E j \in 1..Len(lens) : lens[j] < 0
        THEN [err |-> "TypeError", lens |-> lens, nrows |-> 0, tab |-> tab,
              head |-> head, rows |-> <<>>]
        ELSE IF lens = <<>>
        THEN [err |-> "ValueError", lens |-> lens, nrows |-> 0, tab |-> tab,
              head |-> head, rows |-> <<>>]
        ELSE LET nrows == Max({lens[j] : j \in 1..Len(lens)})
             IN  [err |-> "", lens |-> lens, nrows |-> nrows, tab |-> tab,
                  head |-> head, rows |-> [i \in 1..nrows |-> CsvRow(all, i)]]

\* ------------------------------------------------------ number formatting
\* SI_format(x): "0" for x == 0; get_prefix takes int(floor(log10(abs(x))))
\* of anything else, which raises for a NaN and for an infinity
SIFormat(x) ==
    IF x = Zero THEN ""
    ELSE IF IsNaN(x) THEN "ValueError"
    ELSE IF ~IsFinite(x) THEN "OverflowError"
    ELSE ""

\* SI_format of an amplitude abs(A) kept as its terms
SIFormatAbs(x) == IF CFinite(x.z) THEN "" ELSE "ValueError"

\* line 101: int(np.ceil(np.log10(ω / (2*π) / freq_precision)))
FreqSigfigs(w) ==
    IF IsNaN(w) \/ QLess(w, Zero) THEN "ValueError"
    ELSE IF w = Zero \/ ~IsFinite(w) THEN "OverflowError"
    ELSE ""

\* ------------------------------------------------------- the library client
\* find_harmonics called by a client of the library
ApiCall ==
    /\ pc = "idle"
    /\ dpc = "none"
    /\ \E c \in Captures, hh \in HarmonicCounts, ww \in WindowKinds :
          /\ GoodCapture(c)
          /\ Enter(c[1], c[2], c[3], hh, ww, "api")
    /\ UNCHANGED <<clientVars, displayVars, pureVars>>

\* the client reconstructs the signal from the result it received
ApiReconstruct ==
    /\ pc = "returned" /\ caller = "api"
    /\ recon = {}
    /\ recon' = {HarmonicReconstruct(t, CHOOSE x \in ret : TRUE)}
    /\ UNCHANGED <<engineVars, csv, displayVars>>
    /\ UNCHANGED pureVars

\* the client exports the capture and the result, with or without the fits
ApiSaveCsv ==
    /\ pc = "returned" /\ caller = "api"
    /\ csv = {}
    /\ \E fit \in {<<>>} \cup {<<ArrayCol(t), x>> : x \in recon} :
          csv' = {SaveCsv(<<ArrayCol(t), ArrayCol(ref), ArrayCol(signal)>>, fit, ret)}
    /\ UNCHANGED <<engineVars, recon, displayVars>>
    /\ UNCHANGED pureVars

\* the client drops the outcome
ApiDone ==
    /\ pc \in {"returned", "raised"}
    /\ caller = "api"
    /\ ResetEngine
    /\ recon' = {} /\ csv' = {}
    /\ UNCHANGED displayVars
    /\ UNCHANGED pureVars

\* ------------------------------------------------------------ DataDisplay
DataSets ==
    {c : c \in Captures} \cup {SubSeq(c, 1, 2) : c \in Captures}
    \cup {c \o <<c[3]>> : c \in Captures}

GoodData(x) ==
    /\ \A j \in 2..Len(x) : Len(x[j]) \in ChannelLens(Len(x[1]))
    /\ x[1] # <<>> /\ x[1][1] # Zero => Len(x[1]) = MaxN

\* lines 50-78: DataDisplay(parent, data, harmonics); with three columns
\* find_harmonics(data[0], data[1], data[2], self.num_harmonics) is called
DisplayInit ==
    /\ pc = "idle"
    /\ dpc = "none"
    /\ \E x \in DataSets, hh \in HarmonicCounts :
          /\ GoodData(x)
          /\ data' = x
          /\ num_harmonics' = hh
          /\ IF Len(x) # 3
             THEN /\ detail_plot' = "False"
                  /\ dpc' = "L128"
                  /\ UNCHANGED engineVars
             ELSE /\ detail_plot' = "True"
                  /\ dpc' = "L78"
                  /\ Enter(x[1], x[2], x[3], hh, "hanning", "display")
    /\ attrs' = {"data", "num_harmonics", "detail_plot"}
    /\ self_harmonics' = {} /\ sig_fit' = {} /\ table' = {} /\ dn' = 0
    /\ plotted' = "none" /\ derr' = ""
    /\ UNCHANGED clientVars
    /\ UNCHANGED pureVars

\* line 78: self.harmonics = the result of find_harmonics
DisplayStoreFit ==
    /\ dpc = "L78"
    /\ pc = "returned" /\ caller = "display"
    /\ self_harmonics' = ret
    /\ attrs' = attrs \cup {"harmonics"}
    /\ dpc' = "L80"
    /\ ResetEngine
    /\ UNCHANGED <<clientVars, data, num_harmonics, detail_plot, sig_fit, table, dn,
                   plotted, derr>>
    /\ UNCHANGED pureVars

\* line 78: find_harmonics raised, and so does __init__
DisplayFitRaised ==
    /\ dpc = "L78"
    /\ pc = "raised" /\ caller = "display"
    /\ derr' = err
    /\ dpc' = "failed"
    /\ ResetEngine
    /\ UNCHANGED <<clientVars, data, num_harmonics, attrs, detail_plot,
                   self_harmonics, sig_fit, table, dn, plotted>>
    /\ UNCHANGED pureVars

\* lines 80-82: ref_fit, ref_fit1, sig_fit = harmonic_reconstruct(...)
DisplayReconstruct ==
    /\ dpc = "L80"
    /\ sig_fit' = {HarmonicReconstruct(data[1], CHOOSE x \in self_harmonics : TRUE)}
    /\ attrs' = attrs \cup {"ref_fit", "ref_fit1", "sig_fit"}
    /\ dpc' = "L84"
    /\ UNCHANGED <<engineVars, clientVars, data, num_harmonics, detail_plot,
                   self_harmonics, table, dn, plotted, derr>>
    /\ UNCHANGED pureVars

\* lines 84-108: the table, the period, the row of the reference
DisplayReferenceRow ==
    /\ dpc = "L84"
    /\ LET h == CHOOSE x \in self_harmonics : TRUE
           e101 == FreqSigfigs(h[Key("ref w")])
           e104 == SIFormat(h[Key("ref A")])
       IN  IF e101 # ""
           THEN /\ derr' = e101 /\ dpc' = "failed"
                /\ attrs' = attrs \cup {"table", "period"}
                /\ UNCHANGED <<table, dn>>
           ELSE IF e104 # ""
           THEN /\ derr' = e104 /\ dpc' = "failed"
                /\ attrs' = attrs \cup {"table", "period"}
                /\ table' = {<<0, 0>>}
                /\ UNCHANGED dn
           ELSE /\ attrs' = attrs \cup {"table", "period", "ref_delay"}
                /\ table' = {<<0, c>> : c \in 0..4}
                /\ dn' = 1
                /\ dpc' = "L110"
                /\ UNCHANGED derr
    /\ UNCHANGED <<engineVars, clientVars, data, num_harmonics, detail_plot,
                   self_harmonics, sig_fit, plotted>>
    /\ UNCHANGED pureVars

\* lines 110-122: one pass of for n in range(1, self.num_harmonics + 1)
DisplayHarmonicRow ==
    /\ dpc = "L110"
    /\ dn <= num_harmonics
    /\ LET h == CHOOSE x \in self_harmonics : TRUE
           e116 == SIFormatAbs(h[HKey("A", dn)])
       IN  /\ attrs' = IF dn = 1 THEN attrs \cup {"fund_delay"} ELSE attrs
           /\ IF e116 # ""
              THEN /\ derr' = e116 /\ dpc' = "failed"
                   /\ table' = table \cup {<<dn, 0>>}
                   /\ UNCHANGED dn
              ELSE /\ table' = table \cup {<<dn, c>> : c \in 0..4}
                   /\ dn' = dn + 1
                   /\ UNCHANGED <<dpc, derr>>
    /\ UNCHANGED <<engineVars, clientVars, data, num_harmonics, detail_plot,
                   self_harmonics, sig_fit, plotted>>
    /\ UNCHANGED pureVars

\* draw_plot, lines 144-213: the exception it raises, "" for none.  The
\* detailed view reads period, ref_delay, fund_delay, sig_fit and ref_fit1;
\* the wide view takes get_prefix of the time range and plots every column
\* against the time axis.
DrawPlot(detail, have, cols) ==
    IF detail = "True"
    THEN IF {"period", "ref_delay", "fund_delay", "sig_fit", "ref_fit1"} \subseteq have
         THEN "" ELSE "AttributeError"
    ELSE IF cols = <<>> THEN "IndexError"
    ELSE IF cols[1] = <<>> THEN "ValueError"
    ELSE IF Len(cols[1]) = 1 THEN "OverflowError"
    ELSE IF \E j \in 2..Len(cols) : Len(cols[j]) # Len(cols[1]) THEN "ValueError"
    ELSE ""

\* lines 124-128: the note, then self.draw_plot()
DisplayDraw ==
    /\ \/ dpc = "L128"
       \/ dpc = "L110" /\ dn > num_harmonics
    /\ LET e == DrawPlot(detail_plot, attrs, data)
       IN  IF e # ""
           THEN derr' = e /\ dpc' = "failed" /\ UNCHANGED plotted
           ELSE /\ plotted' = IF detail_plot = "True" THEN "detail" ELSE "wide"
                /\ dpc' = "shown"
                /\ UNCHANGED derr
    /\ UNCHANGED <<engineVars, clientVars, data, num_harmonics, attrs, detail_plot,
                   self_harmonics, sig_fit, table, dn>>
    /\ UNCHANGED pureVars

\* lines 136-138: plot_detail, the slot of the "Detailed signal view"
\* button, which lines 64-67 create for a capture of three columns only
DisplayPlotDetail ==
    /\ dpc = "shown"
    /\ Len(data) = 3
    /\ detail_plot' = "True"
    /\ LET e == DrawPlot("True", attrs, data)
       IN  /\ derr' = e
           /\ plotted' = IF e = "" THEN "detail" ELSE plotted
    /\ UNCHANGED <<engineVars, clientVars, dpc, data, num_harmonics, attrs,
                   self_harmonics, sig_fit, table, dn>>
    /\ UNCHANGED pureVars

\* lines 140-142: plot_wide, the slot of the "Show entire data range" button
DisplayPlotWide ==
    /\ dpc = "shown"
    /\ Len(data) = 3
    /\ detail_plot' = "False"
    /\ LET e == DrawPlot("False", attrs, data)
       IN  /\ derr' = e
           /\ plotted' = IF e = "" THEN "wide" ELSE plotted
    /\ UNCHANGED <<engineVars, clientVars, dpc, data, num_harmonics, attrs,
                   self_harmonics, sig_fit, table, dn>>
    /\ UNCHANGED pureVars

\* DataDisplay.save_csv, lines 130-134
DisplaySaveCsv ==
    /\ dpc = "shown"
    /\ csv = {}
    /\ csv' = {SaveCsv([j \in 1..Len(data) |-> ArrayCol(data[j])],
                       IF "harmonics" \in attrs
                       THEN <<ArrayCol(data[1]), CHOOSE x \in sig_fit : TRUE>>
                       ELSE <<>>,
                       self_harmonics)}
    /\ UNCHANGED <<engineVars, recon, displayVars>>
    /\ UNCHANGED pureVars

\* the display is closed, or the one whose __init__ raised is dropped
DisplayClose ==
    /\ dpc \in {"shown", "failed"}
    /\ dpc' = "none"
    /\ data' = <<>> /\ num_harmonics' = 0 /\ attrs' = {} /\ detail_plot' = "unset"
    /\ self_harmonics' = {} /\ sig_fit' = {} /\ table' = {} /\ dn' = 0
    /\ plotted' = "none" /\ derr' = ""
    /\ csv' = {}
    /\ UNCHANGED <<engineVars, recon>>
    /\ UNCHANGED pureVars

\* ------------------------------------------------------ the specification
vars == <<engineVars, clientVars, displayVars, pureVars>>

WindowOff == wpc = "off" /\ wraw = <<>> /\ wout = <<>> /\ wout2 = <<>>

EstimatorOff ==
    /\ epc = "off" /\ eN = 0 /\ espec = <<>> /\ ei = 0 /\ ef = Zero /\ ewg = Zero
    /\ edt = Zero

EngineOff ==
    /\ pc = "idle" /\ caller = "api"
    /\ t = <<>> /\ ref = <<>> /\ signal = <<>> /\ harmonics = 0 /\ window = "hanning"
    /\ d = EmptyDict
    /\ dt = Zero /\ N = 0 /\ offset = Zero /\ win = <<>> /\ ref_w = <<>>
    /\ p0 = NoParams /\ popt = NoParams /\ sig = <<>> /\ n = 0
    /\ ret = {} /\ err = ""
    /\ solverCalls = 0 /\ solverSeed = <<>>
    /\ recon = {} /\ csv = {}
    /\ dpc = "none"
    /\ data = <<>> /\ num_harmonics = 0 /\ attrs = {} /\ detail_plot = "unset"
    /\ self_harmonics = {} /\ sig_fit = {} /\ table = {} /\ dn = 0
    /\ plotted = "none" /\ derr = ""

RepeatOff == calls = 0 /\ last = <<>>

PairOff == parked = <<>> /\ mixed = FALSE

OrderOff == order = <<>>

ScopeOff ==
    /\ acq = "STOP" /\ rpc = "idle" /\ channels = <<>> /\ found = "STOP"
    /\ running = FALSE /\ ci = 0 /\ output = <<>> /\ curves = <<>> /\ rerr = ""

TabsOff ==
    /\ tabs = <<>> /\ pages = <<>> /\ cur = -1 /\ deleted = {} /\ made = 0
    /\ picked = {} /\ terr = ""

\* qt.py 262-264: ETH_IP = False, oscope not set
EthOff ==
    /\ oscope = -1 /\ ETH_IP = 0 /\ mpc = "idle" /\ viaAcquire = FALSE
    /\ lastId = -1 /\ readFrom = {} /\ got = "" /\ dialog = "" /\ merr = ""
    /\ added = FALSE

DeviceOff == ScopeOff /\ TabsOff /\ EthOff

ExtraOff == RepeatOff /\ PairOff /\ OrderOff /\ DeviceOff

Init == EngineOff /\ WindowOff /\ EstimatorOff /\ ExtraOff

Next ==
    \/ ApiCall
    \/ SampleSpacing
    \/ WindowReference
    \/ EstimateFrequency
    \/ FitReference
    \/ UpdateData
    \/ WindowSignal
    \/ ExtractHarmonic
    \/ ReturnResult
    \/ ApiReconstruct
    \/ ApiSaveCsv
    \/ ApiDone
    \/ DisplayInit
    \/ DisplayStoreFit
    \/ DisplayFitRaised
    \/ DisplayReconstruct
    \/ DisplayReferenceRow
    \/ DisplayHarmonicRow
    \/ DisplayDraw
    \/ DisplayPlotDetail
    \/ DisplayPlotWide
    \/ DisplaySaveCsv
    \/ DisplayClose

Spec == Init /\ [][Next]_vars

\* ------------------------------------------- the window generator alone
\* the window shapes given to it: np.hanning, np.bartlett and np.ones of
\* every length, and every window of positive weights
WindowShapes ==
    {Hanning(len) : len \in 1..MaxN} \cup {Bartlett(len) : len \in 1..MaxN}
    \cup {Ones(len) : len \in 1..MaxN}
    \cup UNION {[1..len -> {Num(1), Num(2), Num(3)}] : len \in 1..MaxW}

InitWindow ==
    /\ EngineOff /\ EstimatorOff /\ ExtraOff
    /\ wpc = "raw" /\ wraw \in WindowShapes /\ wout = <<>> /\ wout2 = <<>>

\* line 44 applied to the weights of line 43
NormalizeWindow ==
    /\ wpc = "raw"
    /\ wout' = Normalize(wraw)
    /\ wpc' = "once"
    /\ UNCHANGED <<wraw, wout2>>
    /\ UNCHANGED <<engineVars, clientVars, displayVars, estimatorVars, extraVars>>

\* line 44 applied to its own result
NormalizeAgain ==
    /\ wpc = "once"
    /\ wout2' = Normalize(wout)
    /\ wpc' = "twice"
    /\ UNCHANGED <<wraw, wout>>
    /\ UNCHANGED <<engineVars, clientVars, displayVars, estimatorVars, extraVars>>

NextWindow == NormalizeWindow \/ NormalizeAgain

SpecWindow == InitWindow /\ [][NextWindow]_vars

\* ---------------------------------------- the frequency estimator alone
\* any magnitudes in the N//2 + 1 bins of the transform of N >= 2 samples
InitEstimator ==
    /\ EngineOff /\ WindowOff /\ ExtraOff
    /\ epc = "spectrum"
    /\ eN \in 2..MaxEstN
    /\ espec \in [0..(eN \div 2) -> {<<Num(m), Zero>> : m \in {0, 1, 2}}]
    /\ edt \in {Num(1), Num(2)}
    /\ ei = 0 /\ ef = Zero /\ ewg = Zero

\* lines 48-55: the peak among the retained bins, its frequency, ωg
SearchPeak ==
    /\ epc = "spectrum"
    /\ LET i == PeakBin(espec, eN)
           f == FftFreq(eN, edt)
       IN  /\ ei' = i
           /\ IF i \in DOMAIN f
              THEN epc' = "done" /\ ef' = f[i] /\ ewg' = AngularFreq(f[i])
              ELSE epc' = "raised" /\ UNCHANGED <<ef, ewg>>
    /\ UNCHANGED <<eN, espec, edt>>
    /\ UNCHANGED <<engineVars, clientVars, displayVars, windowVars, extraVars>>

NextEstimator == SearchPeak

SpecEstimator == InitEstimator /\ [][NextEstimator]_vars

\* ------------------------------------------- calls one after the other
\* the calls such a client makes: full-length captures, every harmonic
\* count, both windows
RepeatCalls ==
    {<<TimeArray(MaxN, 0), RefArray(rs, MaxN), SigArray("alt", MaxN), hh, ww>> :
        rs \in {"const", "alt"}, hh \in HarmonicCounts, ww \in WindowKinds}

\* the first call of the client
RepeatCall ==
    /\ pc = "idle"
    /\ dpc = "none"
    /\ calls = 0
    /\ \E a \in RepeatCalls : Enter(a[1], a[2], a[3], a[4], a[5], "api")
    /\ calls' = 1
    /\ UNCHANGED <<last, pairVars, orderVars, deviceVars, clientVars, displayVars, windowVars,
                   estimatorVars>>

\* the next call, made when the one before has returned or raised: a new
\* frame, whatever the finished call left behind
CallAgain ==
    /\ pc \in {"returned", "raised"}
    /\ caller = "api"
    /\ calls \in 1..(MaxCalls - 1)
    /\ \E a \in RepeatCalls : Enter(a[1], a[2], a[3], a[4], a[5], "api")
    /\ calls' = calls + 1
    /\ last' = <<t, ref, signal, harmonics, window>>
    /\ recon' = {}
    /\ UNCHANGED <<csv, pairVars, orderVars, deviceVars, displayVars, windowVars, estimatorVars>>

NextRepeat ==
    \/ RepeatCall
    \/ CallAgain
    \/ SampleSpacing
    \/ WindowReference
    \/ EstimateFrequency
    \/ FitReference
    \/ UpdateData
    \/ WindowSignal
    \/ ExtractHarmonic
    \/ ReturnResult
    \/ ApiReconstruct

SpecRepeat == Init /\ [][NextRepeat]_vars

\* ----------------------------------------------- two computations at once
\* the frame of the running call: its arguments, its locals, its outcome
Save ==
    [pc |-> pc, caller |-> caller, t |-> t, ref |-> ref, signal |-> signal,
     harmonics |-> harmonics, window |-> window, d |-> d, dt |-> dt, N |-> N,
     offset |-> offset, win |-> win, ref_w |-> ref_w, p0 |-> p0, popt |-> popt,
     sig |-> sig, n |-> n, ret |-> ret, err |-> err,
     solverCalls |-> solverCalls, solverSeed |-> solverSeed]

\* a frame in which no call was made yet
IdleFrame ==
    [pc |-> "idle", caller |-> "api", t |-> <<>>, ref |-> <<>>, signal |-> <<>>,
     harmonics |-> 0, window |-> "hanning", d |-> EmptyDict, dt |-> Zero, N |-> 0,
     offset |-> Zero, win |-> <<>>, ref_w |-> <<>>, p0 |-> NoParams,
     popt |-> NoParams, sig |-> <<>>, n |-> 0, ret |-> {}, err |-> "",
     solverCalls |-> 0, solverSeed |-> <<>>]

\* a frame with the window weights in a buffer the computations share
RestoreSharedWindow(f) ==
    /\ pc' = f.pc /\ caller' = f.caller
    /\ t' = f.t /\ ref' = f.ref /\ signal' = f.signal
    /\ harmonics' = f.harmonics /\ window' = f.window
    /\ d' = f.d
    /\ dt' = f.dt /\ N' = f.N /\ offset' = f.offset /\ win' = win
    /\ ref_w' = f.ref_w /\ p0' = f.p0 /\ popt' = f.popt /\ sig' = f.sig /\ n' = f.n
    /\ ret' = f.ret /\ err' = f.err
    /\ solverCalls' = f.solverCalls /\ solverSeed' = f.solverSeed

\* the frame f runs: every name find_harmonics assigns is a local of its
\* call, so all of them come with the frame
Restore(f) ==
    /\ pc' = f.pc /\ caller' = f.caller
    /\ t' = f.t /\ ref' = f.ref /\ signal' = f.signal
    /\ harmonics' = f.harmonics /\ window' = f.window
    /\ d' = f.d
    /\ dt' = f.dt /\ N' = f.N /\ offset' = f.offset /\ win' = f.win
    /\ ref_w' = f.ref_w /\ p0' = f.p0 /\ popt' = f.popt /\ sig' = f.sig /\ n' = f.n
    /\ ret' = f.ret /\ err' = f.err
    /\ solverCalls' = f.solverCalls /\ solverSeed' = f.solverSeed

\* the calls of the two computations: captures with a constant reference,
\* and one with an oscillating reference
PairCalls ==
    {<<TimeArray(MaxN, 0), RefArray("const", MaxN), SigArray(ss, MaxN), hh, ww>> :
        ss \in SigShapes, hh \in {0, MaxH}, ww \in WindowKinds}
    \cup {<<TimeArray(MaxN, 0), RefArray("alt", MaxN), SigArray("alt", MaxN), 1,
            "hanning">>}

InitPair ==
    /\ EngineOff /\ WindowOff /\ EstimatorOff /\ RepeatOff /\ OrderOff /\ DeviceOff
    /\ parked = IdleFrame /\ mixed = FALSE

\* one of the two computations starts, on a capture that is not the one of
\* the other computation
PairCall ==
    /\ pc = "idle"
    /\ dpc = "none"
    /\ parked # <<>>
    /\ \E a \in PairCalls :
          /\ parked.pc # "idle" => <<a[1], a[2], a[3]>> # <<parked.t, parked.ref, parked.signal>>
          /\ Enter(a[1], a[2], a[3], a[4], a[5], "api")
    /\ UNCHANGED <<clientVars, displayVars, pureVars>>

\* the running computation is suspended between two of its steps and the
\* other one runs
Switch ==
    /\ parked # <<>>
    /\ parked' = Save
    /\ Restore(parked)
    /\ mixed' = (mixed \/ ({pc, parked.pc} \cap {"idle", "returned", "raised"} = {}))
    /\ UNCHANGED <<clientVars, displayVars, windowVars, estimatorVars, repeatVars,
                   orderVars, deviceVars>>

NextPair ==
    \/ PairCall
    \/ Switch
    \/ SampleSpacing
    \/ WindowReference
    \/ EstimateFrequency
    \/ FitReference
    \/ UpdateData
    \/ WindowSignal
    \/ ExtractHarmonic
    \/ ReturnResult

SpecPair == InitPair /\ [][NextPair]_vars

\* ------------------------------------------ the harmonics in any order
\* lines 72-78 with the loop taking the harmonics 1..H in any order: one
\* pass, for a harmonic k not computed yet
ExtractAny ==
    /\ pc = "L72"
    /\ n <= harmonics
    /\ \E k \in (1..harmonics) \ {order[j] : j \in 1..Len(order)} :
          /\ d' = HarmonicRecord(d, sig, t, k)
          /\ order' = Append(order, k)
    /\ n' = n + 1
    /\ UNCHANGED <<pc, caller, argVars, dt, N, offset, win, ref_w, p0, popt, sig, ret,
                   err, solverVars>>
    /\ UNCHANGED <<clientVars, displayVars, windowVars, estimatorVars, repeatVars,
                   pairVars, deviceVars>>

\* the client drops the outcome
OrderDone ==
    /\ pc \in {"returned", "raised"}
    /\ caller = "api"
    /\ ResetEngine
    /\ order' = <<>>
    /\ UNCHANGED <<clientVars, displayVars, windowVars, estimatorVars, repeatVars,
                   pairVars, deviceVars>>

NextOrder ==
    \/ ApiCall
    \/ SampleSpacing
    \/ WindowReference
    \/ EstimateFrequency
    \/ FitReference
    \/ UpdateData
    \/ WindowSignal
    \/ ExtractAny
    \/ ReturnResult
    \/ OrderDone

SpecOrder == Init /\ [][NextOrder]_vars

\* ================================================ the oscilloscope client
\* oscope.py, TBS2000B.  The instrument keeps its acquisition state between
\* calls; every write, ask and read of the instrument may raise (vxi11
\* reports a timeout or a lost connection as an exception), and a command
\* that raised is taken not to have acted.
ChannelLists ==
    UNION {[1..k -> {1, 2}] : k \in 0..MaxChannels}

\* an exception leaves read_channels: nothing catches it in lines 76-95
ScopeRaise(e) ==
    /\ rpc' = "raised" /\ rerr' = e

InitScope ==
    /\ EngineOff /\ WindowOff /\ EstimatorOff /\ RepeatOff /\ PairOff /\ OrderOff
    /\ TabsOff /\ EthOff
    /\ acq \in {"RUN", "STOP"} /\ rpc = "idle" /\ channels = <<>> /\ found = acq
    /\ running = FALSE /\ ci = 0 /\ output = <<>> /\ curves = <<>> /\ rerr = ""

\* line 76: read_channels(channels) is called
ReadChannels ==
    /\ rpc = "idle"
    /\ \E cs \in ChannelLists : channels' = cs
    /\ rpc' = "L77" /\ found' = acq
    /\ running' = FALSE /\ ci' = 0 /\ output' = <<>> /\ curves' = <<>> /\ rerr' = ""
    /\ UNCHANGED acq
    /\ UNCHANGED notScopeVars

\* line 77: running = self.is_running(), an ask of 'ACQ:STATE?'
IsRunning ==
    /\ rpc = "L77"
    /\ \/ rpc' = "L79" /\ running' = (acq = "RUN") /\ UNCHANGED rerr
       \/ ScopeRaise("Vxi11Exception") /\ UNCHANGED running
    /\ UNCHANGED <<acq, channels, found, ci, output, curves>>
    /\ UNCHANGED notScopeVars

\* lines 79-82: if running: self.stop(); output = []
StopIfRunning ==
    /\ rpc = "L79"
    /\ \/ rpc' = "L84" /\ ci' = 1 /\ UNCHANGED rerr
          /\ acq' = IF running THEN "STOP" ELSE acq
       \/ running /\ ScopeRaise("Vxi11Exception") /\ UNCHANGED <<acq, ci>>
    /\ UNCHANGED <<channels, found, running, output, curves>>
    /\ UNCHANGED notScopeVars

\* lines 84-85 and 55-61: the loop takes the next channel, read_channel
\* selects it as the data source and asks for the waveform format; with no
\* channel left the loop ends
SelectSource ==
    /\ rpc = "L84"
    /\ IF ci > Len(channels)
       THEN rpc' = "L92" /\ UNCHANGED rerr
       ELSE \/ rpc' = "L67" /\ UNCHANGED rerr
            \/ ScopeRaise("Vxi11Exception")
    /\ UNCHANGED <<acq, channels, found, running, ci, output, curves>>
    /\ UNCHANGED notScopeVars

\* lines 67-68: 'CURV?' and read_raw()
ReadCurve ==
    /\ rpc = "L67"
    /\ \/ rpc' = "L69" /\ curves' = Append(curves, acq) /\ UNCHANGED rerr
       \/ ScopeRaise("Vxi11Exception") /\ UNCHANGED curves
    /\ UNCHANGED <<acq, channels, found, running, ci, output>>
    /\ UNCHANGED notScopeVars

\* lines 69 and 39-43: error_byte() raises RuntimeError on a nonzero '*ESR?'
ErrorByte ==
    /\ rpc = "L69"
    /\ \E esr \in {0, 1} :
          IF esr # 0 THEN ScopeRaise("RuntimeError")
          ELSE rpc' = "L71" /\ UNCHANGED rerr
    /\ UNCHANGED <<acq, channels, found, running, ci, output, curves>>
    /\ UNCHANGED notScopeVars

\* lines 71-74, 22-28 and 87-90: convert_raw; a block that does not start
\* with '#' reaches line 24, whose message names the undefined dat, so
\* NameError is raised; else t is kept once and V appended
ConvertRaw ==
    /\ rpc = "L71"
    /\ \E hash \in BOOLEAN :
          IF ~hash THEN ScopeRaise("NameError") /\ UNCHANGED <<output, ci>>
          ELSE /\ output' = (IF output = <<>> THEN <<"t">> ELSE output)
                             \o <<channels[ci]>>
               /\ ci' = ci + 1
               /\ rpc' = "L84" /\ UNCHANGED rerr
    /\ UNCHANGED <<acq, channels, found, running, curves>>
    /\ UNCHANGED notScopeVars

\* lines 92-95: if running: self.run(); return tuple(output)
Restart ==
    /\ rpc = "L92"
    /\ \/ rpc' = "returned" /\ UNCHANGED rerr
          /\ acq' = IF running THEN "RUN" ELSE acq
       \/ running /\ ScopeRaise("Vxi11Exception") /\ UNCHANGED acq
    /\ UNCHANGED <<channels, found, running, ci, output, curves>>
    /\ UNCHANGED notScopeVars

\* the caller has the tuple or the exception (qt.py 308-317); the
\* instrument stays as the call left it
ScopeDone ==
    /\ rpc \in {"returned", "raised"}
    /\ rpc' = "idle" /\ channels' = <<>> /\ found' = acq
    /\ running' = FALSE /\ ci' = 0 /\ output' = <<>> /\ curves' = <<>> /\ rerr' = ""
    /\ UNCHANGED acq
    /\ UNCHANGED notScopeVars

NextScope ==
    \/ ReadChannels
    \/ IsRunning
    \/ StopIfRunning
    \/ SelectSource
    \/ ReadCurve
    \/ ErrorByte
    \/ ConvertRaw
    \/ Restart
    \/ ScopeDone

SpecScope == InitScope /\ [][NextScope]_vars

\* ============================================================== the tabs
\* qt.py, Tabs(QTabWidget).  The tab widget keeps its own list of tabs;
\* Tabs.pages is the Python list next to it.  Tab indices count from 0.
\* seq.pop(index) and seq[index] of a Python list: a negative index counts
\* from the end, an index out of range raises IndexError
PyIndex(seq, index) ==
    IF index >= 0 /\ index < Len(seq) THEN index + 1
    ELSE IF index < 0 /\ -index <= Len(seq) THEN Len(seq) + index + 1
    ELSE 0

Without(seq, k) == SubSeq(seq, 1, k - 1) \o SubSeq(seq, k + 1, Len(seq))

\* QTabWidget.removeTab(index): nothing for an index that is no tab; the
\* tab right of a removed current tab becomes the current one, the last
\* tab if there is none to the right
QRemoveTab(seq, index) ==
    IF index >= 0 /\ index < Len(seq) THEN Without(seq, index + 1) ELSE seq

QCurrentAfterRemove(c, index, count) ==
    IF index < 0 \/ index >= count THEN c
    ELSE IF index < c THEN c - 1
    ELSE IF index = c /\ index >= count - 1 THEN count - 2
    ELSE c

InitTabs ==
    /\ EngineOff /\ WindowOff /\ EstimatorOff /\ RepeatOff /\ PairOff /\ OrderOff
    /\ ScopeOff /\ TabsOff /\ EthOff

\* lines 18-20: add_tab(widget, title) with a display just created
\* (qt.py 317-318, 333-334)
AddTab ==
    /\ made < MaxWidgets
    /\ made' = made + 1
    /\ pages' = Append(pages, made')
    /\ tabs' = Append(tabs, pages'[Len(pages')])
    /\ cur' = Len(tabs') - 1
    /\ picked' = {} /\ terr' = ""
    /\ UNCHANGED deleted
    /\ UNCHANGED notTabVars

\* lines 22-24 with pages.pop() in place of pages.pop(index)
RemoveTabLast(index) ==
    /\ tabs' = QRemoveTab(tabs, index)
    /\ cur' = QCurrentAfterRemove(cur, index, Len(tabs))
    /\ picked' = {}
    /\ IF pages = <<>>
       THEN terr' = "IndexError" /\ UNCHANGED <<pages, deleted>>
       ELSE /\ pages' = Without(pages, Len(pages))
            /\ deleted' = deleted \cup {pages[Len(pages)]}
            /\ terr' = ""
    /\ UNCHANGED made
    /\ UNCHANGED notTabVars

\* lines 22-24: remove_tab(index)
RemoveTab(index) ==
    /\ tabs' = QRemoveTab(tabs, index)
    /\ cur' = QCurrentAfterRemove(cur, index, Len(tabs))
    /\ picked' = {}
    /\ IF PyIndex(pages, index) = 0
       THEN terr' = "IndexError" /\ UNCHANGED <<pages, deleted>>
       ELSE /\ pages' = Without(pages, PyIndex(pages, index))
            /\ deleted' = deleted \cup {pages[PyIndex(pages, index)]}
            /\ terr' = ""
    /\ UNCHANGED made
    /\ UNCHANGED notTabVars

\* line 16: tabCloseRequested is connected to remove_tab; the signal carries
\* the index of the tab whose close button was pressed
TabCloseRequested ==
    \E index \in 0..(Len(tabs) - 1) : RemoveTab(index)

\* the user selects another tab
SelectTab ==
    /\ \E index \in 0..(Len(tabs) - 1) : index # cur /\ cur' = index
    /\ picked' = {} /\ terr' = ""
    /\ UNCHANGED <<tabs, pages, deleted, made>>
    /\ UNCHANGED notTabVars

\* lines 26-27: current_tab(), called by save_file (qt.py 336-340)
CurrentTab ==
    /\ picked = {} /\ terr = ""
    /\ IF PyIndex(pages, cur) = 0
       THEN terr' = "IndexError" /\ UNCHANGED picked
       ELSE picked' = {pages[PyIndex(pages, cur)]} /\ UNCHANGED terr
    /\ UNCHANGED <<tabs, pages, cur, deleted, made>>
    /\ UNCHANGED notTabVars

NextTabs ==
    \/ AddTab
    \/ TabCloseRequested
    \/ SelectTab
    \/ CurrentTab

SpecTabs == InitTabs /\ [][NextTabs]_vars

\* ===================================================== the Ethernet menu
\* qt.py, MainWindow.ethernet_setup and ethernet_acquire, and error_popup.
\* The addresses 1..MaxScopes are those of a TBS2000B; at address 0
\* something else answers, or nothing.
Addresses == 0..MaxScopes

\* getattr(self, 'oscope', False) is true
HasScope == oscope >= 1

\* error_popup(e, ok), lines 216-239: for an exception the dialog is shown;
\* for a str line 221 reads the name none, which nothing defines, and
\* NameError is raised before any dialog is made
ErrorPopup(kind) ==
    IF kind = "message" THEN [shown |-> "", raised |-> "NameError"]
    ELSE [shown |-> "exception", raised |-> ""]

\* a slot starts: nothing read, shown, raised or added yet
SlotStart ==
    /\ mpc = "idle"
    /\ readFrom' = {} /\ got' = "" /\ dialog' = "" /\ merr' = "" /\ added' = FALSE

\* ethernet_setup is left by break: back in ethernet_acquire at line 305,
\* or the slot is over
LeaveSetup == mpc' = IF viaAcquire THEN "L305" ELSE "idle"

\* the menu entry "Ethernet Setup", lines 268 and 281
EthernetSetup ==
    /\ SlotStart
    /\ mpc' = "L283" /\ viaAcquire' = FALSE
    /\ UNCHANGED <<oscope, ETH_IP, lastId>>
    /\ UNCHANGED notEthVars

\* the menu entry "Acquire", lines 273 and 301-303: without a scope
\* ethernet_setup is called first
EthernetAcquire ==
    /\ SlotStart
    /\ IF HasScope THEN mpc' = "L308" /\ viaAcquire' = FALSE
       ELSE mpc' = "L283" /\ viaAcquire' = TRUE
    /\ UNCHANGED <<oscope, ETH_IP, lastId>>
    /\ UNCHANGED notEthVars

\* lines 283-299 with the except clause leaving self.oscope as it was
SetupDialogKeep ==
    /\ mpc = "L283"
    /\ \/ LeaveSetup /\ UNCHANGED <<oscope, ETH_IP, lastId, dialog>>
       \/ \E ip \in Addresses :
             \/ /\ ip >= 1
                /\ oscope' = ip /\ ETH_IP' = ip /\ lastId' = ip
                /\ LeaveSetup /\ UNCHANGED dialog
             \/ /\ lastId' = 0
                /\ dialog' = ErrorPopup("exception").shown
                /\ mpc' = "L293"
                /\ UNCHANGED <<oscope, ETH_IP>>
    /\ UNCHANGED <<viaAcquire, readFrom, got, merr, added>>
    /\ UNCHANGED notEthVars

\* lines 283-299 and oscope.py 100-110: the address dialog; cancelled, the
\* loop is left; else get_oscope(ip) returns the TBS2000B at ip, or raises
\* (no TBS2000B at ip, no answer, an error byte at line 37), which clears
\* oscope and shows the exception
SetupDialog ==
    /\ mpc = "L283"
    /\ \/ LeaveSetup /\ UNCHANGED <<oscope, ETH_IP, lastId, dialog>>
       \/ \E ip \in Addresses :
             \/ /\ ip >= 1
                /\ oscope' = ip /\ ETH_IP' = ip /\ lastId' = ip
                /\ LeaveSetup /\ UNCHANGED dialog
             \/ /\ oscope' = 0 /\ lastId' = 0
                /\ dialog' = ErrorPopup("exception").shown
                /\ mpc' = "L293"
                /\ UNCHANGED ETH_IP
    /\ UNCHANGED <<viaAcquire, readFrom, got, merr, added>>
    /\ UNCHANGED notEthVars

\* lines 293-294: OK in the popup asks for the address again, Cancel leaves
SetupPopup ==
    /\ mpc = "L293"
    /\ \/ mpc' = "L283"
       \/ LeaveSetup
    /\ UNCHANGED <<oscope, ETH_IP, viaAcquire, lastId, readFrom, got, dialog, merr,
                   added>>
    /\ UNCHANGED notEthVars

\* lines 305-306: still no scope after the setup, return
AcquireCheck ==
    /\ mpc = "L305"
    /\ mpc' = IF HasScope THEN "L308" ELSE "idle"
    /\ UNCHANGED <<oscope, ETH_IP, viaAcquire, lastId, readFrom, got, dialog, merr,
                   added>>
    /\ UNCHANGED notEthVars

\* lines 308-312: data = self.oscope.read_channels((1, 2)); an exception is
\* shown by error_popup(e).  With two channels asked the tuple returned
\* holds three arrays, of fewer than 10 samples or more
AcquireRead ==
    /\ mpc = "L308"
    /\ readFrom' = {oscope}
    /\ \E out \in {"raised", "short", "full"} :
          /\ got' = out
          /\ IF out = "raised"
             THEN dialog' = ErrorPopup("exception").shown /\ mpc' = "idle"
             ELSE mpc' = "L313" /\ UNCHANGED dialog
    /\ UNCHANGED <<oscope, ETH_IP, viaAcquire, lastId, merr, added>>
    /\ UNCHANGED notEthVars

\* lines 313-318, in the else of the try: null data goes to error_popup
\* with a str; else the display is constructed, which may raise, and added
\* as a tab
AcquireShow ==
    /\ mpc = "L313"
    /\ mpc' = "idle"
    /\ IF got = "short"
       THEN /\ dialog' = ErrorPopup("message").shown
            /\ merr' = ErrorPopup("message").raised
            /\ UNCHANGED added
       ELSE /\ \E e \in {"", "RuntimeError"} :
                  merr' = e /\ added' = (e = "")
            /\ UNCHANGED dialog
    /\ UNCHANGED <<oscope, ETH_IP, viaAcquire, lastId, readFrom, got>>
    /\ UNCHANGED notEthVars

NextEthernet ==
    \/ EthernetSetup
    \/ EthernetAcquire
    \/ SetupDialog
    \/ SetupPopup
    \/ AcquireCheck
    \/ AcquireRead
    \/ AcquireShow

SpecEthernet == Init /\ [][NextEthernet]_vars

\* ============================================================ properties
\* the keys of the dict find_harmonics builds for a harmonic count h
ResultKeys(h) ==
    {Key("num harmonics")} \cup RefKeys \cup UNION {HarmonicKeys(k) : k \in 1..h}

\* a value of the dict is finite: a float is, and a complex sum (or its
\* abs or angle) is when every term of it is
ValueFinite(key, v) ==
    CASE key[1] = "num harmonics" -> TRUE
      [] key[1] = "A~" -> CFinite(v)
      [] key[1] \in {"A", "phi"} -> CFinite(v.z)
      [] OTHER -> IsFinite(v)

ResultFinite(r) == \A key \in DOMAIN r : ValueFinite(key, r[key])

AllZero(x) == x # <<>> /\ \A k \in 1..Len(x) : x[k] = Zero

\* the capture of the running call, and the one of the display, has
\* channels as long as its time array
SameLengths(x) == \A j \in 2..Len(x) : Len(x[j]) = Len(x[1])

ShapedCapture ==
    /\ pc # "idle" => SameLengths(<<t, ref, signal>>)
    /\ dpc # "none" => SameLengths(data)

\* C1: in every result find_harmonics returns, the stored reference phase
\* 'ref ϕ' satisfies 0 <= ϕ0 < 2π, whatever phase the solver reported.
C1_PhaseInRange ==
    \A r \in ret :
        ShapedCapture =>
            /\ ~QLess(r[Key("ref phi")], Zero)
            /\ QLess(r[Key("ref phi")], Num(TwoPi))

\* C2: a call of find_harmonics that failed hands no result to its caller,
\* and a result that is handed over (returned, or stored by the display)
\* holds the reference fit and every one of the H harmonic records.
C2_NoPartialResult ==
    /\ pc = "raised" => ret = {} /\ err # ""
    /\ ret # {} => pc = "returned" /\ err = ""
    /\ \A r \in ret : DOMAIN r = ResultKeys(harmonics)
    /\ \A r \in self_harmonics : DOMAIN r = ResultKeys(num_harmonics)
    /\ dpc = "L78" => self_harmonics = {}

\* a stage failed after the reference fit went into d: nothing is returned
C2_FailedAfterFit ==
    /\ pc = "raised"
    /\ Key("ref w") \in DOMAIN d
    /\ harmonics >= 1
    /\ ret = {}

\* C3: the solver is invoked once per call of find_harmonics, with the
\* seed of the estimator, and a fit that did not converge ends the call
\* with that failure and without a result, for the display as well.
C3_SolverOnce ==
    /\ solverCalls <= 1
    /\ solverCalls = 1 => solverSeed = <<p0>>
    /\ pc \in {"L62", "L69", "L72", "returned"} => solverCalls = 1
    /\ err = "RuntimeError" => pc = "raised" /\ ret = {} /\ solverCalls = 1
    /\ derr = "RuntimeError" => dpc = "failed" /\ self_harmonics = {}

\* the one fit of a call did not converge and the call raised
C3_NotConverged ==
    /\ pc = "raised"
    /\ err = "RuntimeError"
    /\ solverCalls = 1
    /\ solverSeed = <<p0>>

\* C4: for an all-zero reference channel (as long as t) find_harmonics
\* never returns a result whose values are all finite.
C4_ZeroReferenceRaises ==
    AllZero(ref) /\ ShapedCapture => \A r \in ret : ~ResultFinite(r)

\* C5: a result of find_harmonics that holds a non-finite value is not
\* stored by DataDisplay: every result the display holds (for a capture
\* with channels as long as t) is finite, and no table cell is filled
\* from one that is not.
C5_NonFiniteNotShown ==
    \A r \in self_harmonics :
        ShapedCapture /\ table # {} => ResultFinite(r)

\* C6: for H >= 1 a returned result has 'num harmonics' = H, the harmonic
\* records 1..H and no other, and ω_n = n·ω0 with ω0 the 'ref ω' of the
\* same result.
C6_HarmonicRecords ==
    \A r \in ret :
        harmonics >= 1 =>
            /\ r[Key("num harmonics")] = harmonics
            /\ {key[2] : key \in {k \in DOMAIN r : k[1] \in HarmonicNames}}
                   = 1..harmonics
            /\ \A k \in 1..harmonics :
                  /\ HarmonicKeys(k) \subseteq DOMAIN r
                  /\ r[HKey("w", k)] = QMul(Num(k), r[Key("ref w")])

\* a result with two records or more whose refined frequency is not the seed
C6_RefinedFrequency ==
    /\ pc = "returned"
    /\ harmonics >= 2
    /\ \E r \in ret : r[Key("ref w")] # Zero /\ r[Key("ref w")] # p0.w

\* an operation completed without error for H = 0
AcceptsZero ==
    \/ pc = "returned" /\ harmonics = 0
    \/ num_harmonics = 0 /\ self_harmonics # {}
    \/ \E x \in recon : x.scalar

\* an operation raised because H = 0
RejectsZero ==
    \/ pc = "returned" /\ harmonics = 0 /\ \E c \in csv : c.err = "TypeError"
    \/ num_harmonics = 0 /\ self_harmonics # {} /\ derr = "AttributeError"

\* C7: H = 0 meets one policy: no state shows one operation that completed
\* for H = 0 and another that failed because of it.
C7_OnePolicyForZero == ShapedCapture => ~(AcceptsZero /\ RejectsZero)

\* C8: for a channel whose length is not that of the time array the call
\* ends before the reference fit is computed, and no result is returned.
C8_ShapeChecked ==
    (pc # "idle" /\ ~SameLengths(<<t, ref, signal>>)) =>
        pc \notin {"L62", "L69", "L72", "returned"} /\ ret = {}

\* C9 as stated: the normalized weights of every window shape and length
\* sum to 2, and normalizing them again changes nothing.
C9_EveryWindowSumsToTwo ==
    /\ wpc \in {"once", "twice"} => ArraySum(wout) = Num(2)
    /\ wpc = "twice" => wout2 = wout

\* C9: the normalized weights of a window whose raw weights do not sum to
\* zero sum to 2, and normalizing them again changes nothing.
C9_UsableWindowSumsToTwo ==
    ArraySum(wraw) # Zero =>
        /\ wpc \in {"once", "twice"} => ArraySum(wout) = Num(2) /\ Len(wout) = Len(wraw)
        /\ wpc = "twice" => wout2 = wout

\* a window that normalization rescales, normalized twice
C9_Rescaled ==
    /\ wpc = "twice"
    /\ ArraySum(wraw) \notin {Zero, Num(2)}
    /\ wout # wraw

\* C10 as stated: every frequency the peak search can return is in the
\* lower quarter of the sampling bandwidth, nearer 1/(4 dt) than 1/(2 dt).
C10_PeakBelowQuarter ==
    epc = "done" => ~QLess(Q(3, 8), QMul(ef, edt))

\* C10: the peak search selects the largest of the first N//2 bins, never
\* the bin N//2, and the frequency it returns is below 1/(2 dt).
C10_PeakBelowNyquist ==
    /\ epc # "raised"
    /\ epc = "done" =>
          /\ ei \in 0..(eN \div 2 - 1)
          /\ \A j \in 0..(eN \div 2 - 1) : ~QLess(espec[ei][1], espec[j][1])
          /\ ef = QDiv(Num(ei), QMul(Num(eN), edt))
          /\ ewg = AngularFreq(ef)
          /\ QLess(QMul(ef, edt), Q(1, 2))

\* the largest magnitude is in the bin N//2, and the search returns a bin
\* above 1/(4 dt)
C10_PeakAboveQuarter ==
    /\ epc = "done"
    /\ \A j \in 0..(eN \div 2 - 1) : QLess(espec[j][1], espec[eN \div 2][1])
    /\ QLess(Q(1, 4), QMul(ef, edt))


\* the harmonic records 1..k put into dict, in increasing order
RECURSIVE Records(_, _, _, _)
Records(dict, ss, tt, k) ==
    IF k = 0 THEN dict ELSE HarmonicRecord(Records(dict, ss, tt, k - 1), ss, tt, k)

\* what lines 37-80 make of the arguments and of the fit curve_fit reported
ResultOf(tt, rr, ss, hh, ww, fit) ==
    Records(StoreFit(Put(EmptyDict, Key("num harmonics"), hh), rr, fit),
            DemeanWindow(ss, Normalize(WindowFn(ww, Len(tt)))), tt, hh)

\* C11: whatever calls came before, every local of a call and the result
\* it returns are functions of the arguments of this call and of what the
\* numerical library reported to it, and harmonic_reconstruct gives the
\* reconstruction of the result it was handed.
C11_ResultOfArguments ==
    /\ pc \in {"L48", "L59", "L62", "L69", "L72", "returned"} =>
          /\ dt = QSub(t[2], t[1]) /\ N = Len(t)
          /\ offset = ArrayMean(ref)
          /\ win = Normalize(WindowFn(window, Len(t)))
          /\ ref_w = DemeanWindow(ref, win)
    /\ pc \in {"L59", "L62", "L69", "L72", "returned"} =>
          \E spectrum \in Rfft(ref_w) :
              p0 = Seed(offset, spectrum[PeakBin(spectrum, N)],
                        FftFreq(N, dt)[PeakBin(spectrum, N)], t[1])
    /\ pc \in {"L62", "L69", "L72", "returned"} => <<"", popt>> \in CurveFit(t, ref, p0)
    /\ pc = "L72" => d = Records(StoreFit(Put(EmptyDict, Key("num harmonics"), harmonics),
                                          ref, popt), sig, t, n - 1)
    /\ pc = "returned" => ret = {ResultOf(t, ref, signal, harmonics, window, popt)}
    /\ \A x \in recon : ret # {} /\ \A r \in ret : x = HarmonicReconstruct(t, r)

\* a call returned after a call with other arguments and more harmonics
C11_SecondCall ==
    /\ calls = MaxCalls
    /\ pc = "returned"
    /\ recon # {}
    /\ last # <<t, ref, signal, harmonics, window>>
    /\ last[4] > harmonics


\* the outcome in the frame f is one the call of f gives when it runs alone:
\* a result made of its own arguments and of a fit of its own reference from
\* a seed of its own spectrum, or the failure of that fit
AloneOutcome(f) ==
    LET w == Normalize(WindowFn(f.window, Len(f.t)))
        seeds == {Seed(ArrayMean(f.ref), spectrum[PeakBin(spectrum, Len(f.t))],
                       FftFreq(Len(f.t), QSub(f.t[2], f.t[1]))[PeakBin(spectrum, Len(f.t))],
                       f.t[1]) :
                     spectrum \in Rfft(DemeanWindow(f.ref, w))}
    IN  /\ f.pc = "returned" =>
              /\ f.p0 \in seeds
              /\ <<"", f.popt>> \in CurveFit(f.t, f.ref, f.p0)
              /\ f.ret = {ResultOf(f.t, f.ref, f.signal, f.harmonics, f.window, f.popt)}
        /\ f.pc = "raised" =>
              /\ f.p0 \in seeds
              /\ <<f.err, NoParams>> \in CurveFit(f.t, f.ref, f.p0)
              /\ f.ret = {}

\* C12: however the steps of two computations on different captures are
\* interleaved, each ends with an outcome it has when it runs alone.
C12_InterleavedAsAlone ==
    parked # <<>> => AloneOutcome(Save) /\ AloneOutcome(parked)

\* both computations returned, with different windows, after they were
\* switched while both were under way
C12_BothReturned ==
    /\ mixed
    /\ parked # <<>>
    /\ pc = "returned" /\ parked.pc = "returned"
    /\ window # parked.window
    /\ harmonics >= 1 /\ parked.harmonics >= 1


\* C13: when the loop takes the harmonics in any order, the record of
\* every harmonic it has computed is the record the increasing order gives,
\* and with all of 1..H computed the result is that of the increasing order.
C13_AnyOrder ==
    pc \in {"L72", "returned"} =>
        LET inOrder == ResultOf(t, ref, signal, harmonics, window, popt)
            done == {order[j] : j \in 1..Len(order)}
        IN  /\ \A k \in done : \A key \in HarmonicKeys(k) :
                  key \in DOMAIN d /\ d[key] = inOrder[key]
            /\ done = 1..harmonics => d = inOrder
            /\ \A r \in ret : r = inOrder

\* a result returned by a loop that took a higher harmonic before a lower
C13_Permuted ==
    /\ pc = "returned"
    /\ Len(order) >= 2
    /\ order[1] > order[2]
    /\ \E r \in ret : r[Key("ref w")] # Zero


\* C14: from the call to its end the arrays t, ref and signal keep their
\* values, a DataDisplay keeps its capture, and a result that was returned
\* or stored is not changed by any later step of a client or a display.
C14_NothingMutated ==
    [][/\ (pc # "idle" /\ pc' # "idle") =>
              t' = t /\ ref' = ref /\ signal' = signal
       /\ (dpc # "none" /\ dpc' # "none") => data' = data
       /\ (ret # {} /\ pc' # "idle") => ret' = ret
       /\ (self_harmonics # {} /\ dpc' # "none") => self_harmonics' = self_harmonics
      ]_vars

\* a display that stored a result, reconstructed, tabulated, plotted and
\* exported it
C14_ResultConsumed ==
    /\ dpc = "shown"
    /\ self_harmonics # {}
    /\ sig_fit # {}
    /\ plotted = "detail"
    /\ \E c \in csv : c.err = ""


\* C15: for a capture with channels as long as t and each n in 1..H, the
\* stored A~n is the sum of the terms w[k]·(signal[k] - mean(signal)) at the
\* angles n·ω0·t[k] + n·ϕ0, with w the normalized window that was applied to
\* the reference, ω0 the frequency the fit reported and ϕ0 its wrapped
\* phase, and the stored An and ϕn are abs and angle of that A~n.
C15_LockInAmplitude ==
    \A r \in ret :
        SameLengths(<<t, ref, signal>>) =>
            LET w == Normalize(WindowFn(window, Len(t)))
                mean == ArrayMean(signal)
                w0 == popt.w
                phi0 == FloatMod(popt.phi, TwoPi)
                term(k, j) ==
                    [c |-> QMul(w[j], QSub(signal[j], mean)),
                     th |-> QAdd(QMul(QMul(Num(k), w0), t[j]), QMul(Num(k), phi0))]
            IN  /\ ref_w = [j \in 1..Len(t) |-> QMul(w[j], QSub(ref[j], ArrayMean(ref)))]
                /\ r[Key("ref w")] = w0 /\ r[Key("ref phi")] = phi0
                /\ \A k \in 1..harmonics :
                      /\ r[HKey("A~", k)] = [j \in 1..Len(t) |-> term(k, j)]
                      /\ r[HKey("A", k)] = CAbs(r[HKey("A~", k)])
                      /\ r[HKey("phi", k)] = CAngle(r[HKey("A~", k)])

\* a result with harmonics whose fit moved off the seed frequency and
\* reported a phase outside [0, 2π)
C15_RefinedAndWrapped ==
    /\ pc = "returned"
    /\ harmonics >= 2
    /\ SameLengths(<<t, ref, signal>>)
    /\ AllFinite(signal)
    /\ popt.w # p0.w /\ popt.w # Zero
    /\ QLess(Num(TwoPi), popt.phi)
    /\ window = "hanning"


\* the reconstruction x is the sum, at each of len samples, of one term
\* An·cos(ωn·t + ϕn + n·ϕ0) for each n in 1..H of the result r; with no
\* term it is the number 0
SumOfHarmonics(x, r, len) ==
    LET H == r[Key("num harmonics")]
    IN  /\ DOMAIN x.terms = 1..H
        /\ \A k \in 1..H :
              /\ x.terms[k].A = r[HKey("A", k)]
              /\ x.terms[k].w = r[HKey("w", k)]
              /\ x.terms[k].phi = r[HKey("phi", k)]
              /\ x.terms[k].shift = QMul(Num(k), r[Key("ref phi")])
        /\ x.len = len
        /\ x.scalar <=> H = 0

\* C16: harmonic_reconstruct, called by a client or by DataDisplay, returns
\* the sum over n = 1..H of An·cos(ωn·t[k] + ϕn + n·ϕ0) at every sample
\* k, with ϕ0 the 'ref ϕ' of the fit and one term for each harmonic.
C16_ReconstructionSum ==
    /\ \A x \in recon : \A r \in ret : SumOfHarmonics(x, r, Len(t))
    /\ \A x \in sig_fit : \A r \in self_harmonics : SumOfHarmonics(x, r, Len(data[1]))

\* a reconstruction of two harmonics or more with a reference phase that
\* is not zero
C16_Reconstructed ==
    /\ pc = "returned"
    /\ \E x \in recon : Len(x.terms) >= 2 /\ x.terms[2].shift # Zero /\ ~x.scalar

\* the result the file was written from
CsvSource == IF caller = "api" THEN ret ELSE self_harmonics

\* C17: a file written with a harmonic table has, under the table's
\* headings, one row per harmonic n = 1..H in increasing n with the index n,
\* ω_n/2π, |A_n| and ϕ_n of that harmonic, then exactly one 'ref' row with
\* the reference's frequency, amplitude and phase and nothing below it; and
\* every value of every row stands in the column of its heading.
C17_HarmonicTableRows ==
    \A c \in csv : \A r \in CsvSource :
        c.err = "" =>
            LET H == r[Key("num harmonics")]
                at(name) == CHOOSE j \in 1..Len(c.head) : c.head[j] = name
                cell(i, name) == c.rows[i][at(name)]
                line(i, a, b, e, f) ==
                    /\ Len(c.rows[i]) = Len(c.head)
                    /\ cell(i, "") = ""
                    /\ cell(i, "Harmonic") = a
                    /\ cell(i, "Frequency (Hz)") = QDiv(b, Num(TwoPi))
                    /\ cell(i, "Amplitude (V)") = e
                    /\ cell(i, "Phase Delay (rad)") = f
            IN  /\ \A name \in {"", "Harmonic", "Frequency (Hz)", "Amplitude (V)",
                                "Phase Delay (rad)"} :
                        Cardinality({j \in 1..Len(c.head) : c.head[j] = name}) = 1
                /\ Len(c.rows) >= H + 1
                /\ \A k \in 1..H :
                        line(k, <<"n", k>>, r[HKey("w", k)], r[HKey("A", k)],
                             r[HKey("phi", k)])
                /\ line(H + 1, <<"ref", 0>>, r[Key("ref w")], r[Key("ref A")],
                        r[Key("ref phi")])
                /\ \A i \in (H + 2)..Len(c.rows) : Len(c.rows[i]) < at("")
                /\ \A i \in 1..Len(c.rows) : \A j \in 1..Len(c.rows[i]) :
                        j < at("") /\ c.rows[i][j] # "" => c.rows[i][j] = <<c.head[j], i>>

\* a table of two harmonics written next to longer data columns
C17_TableWritten ==
    \E c \in csv : \E r \in CsvSource :
        /\ c.err = ""
        /\ r[Key("num harmonics")] >= 2
        /\ Len(c.rows) > r[Key("num harmonics")] + 1
        /\ Len(c.head) > 8

\* the place of a line of find_harmonics in the order of its stages
StageRank(p) ==
    CASE p = "L39" -> 1
      [] p = "L42" -> 2
      [] p = "L48" -> 3
      [] p = "L59" -> 4
      [] p = "L62" -> 5
      [] p = "L69" -> 6
      [] p = "L72" -> 7
      [] p = "returned" -> 8
      [] OTHER -> 0

\* C18: within one call the stages run in the order window generation,
\* frequency estimation, reference refinement, harmonic extraction, each
\* once at most: the call only moves to the next stage or raises, the
\* window, the seed and the fit are each written by their own stage only,
\* and every harmonic is extracted once.  Extraction starts only after the
\* one solver call has returned a fit without an exception.  The seed is
\* handed to the solver and to nothing else: the reference entries, the
\* harmonic frequencies and the returned result are those of the fit.
C18_StagesInOrder ==
    [][/\ pc' # pc /\ pc' \notin {"idle", "L39", "raised"} =>
              StageRank(pc') = StageRank(pc) + 1
       /\ pc' = "L39" => pc = "idle"
       /\ pc' \notin {"idle", "L39"} =>
              /\ win' # win => pc = "L42" /\ pc' \in {"L48", "raised"}
              /\ p0' # p0 => pc = "L48" /\ pc' = "L59"
              /\ popt' # popt => pc = "L59" /\ pc' = "L62"
              /\ solverCalls' # solverCalls => pc = "L59"
              /\ sig' # sig => pc = "L69" /\ pc' = "L72"
              /\ pc = "L72" /\ pc' = "L72" => n' = n + 1
              /\ d' # d => pc \in {"L62", "L72"}
       /\ pc' \in {"L69", "L72", "returned"} =>
              /\ solverCalls' = 1 /\ solverSeed' = <<p0'>> /\ err' = ""
              /\ <<"", popt'>> \in CurveFit(t', ref', p0')
       /\ pc' \in {"L69", "L72"} =>
              \A k \in DOMAIN d' :
                  d'[k] = Records(StoreFit(Put(EmptyDict, Key("num harmonics"),
                                              harmonics'), ref', popt'),
                                 sig', t', harmonics')[k]
       /\ pc' = "returned" =>
              ret' = {ResultOf(t', ref', signal', harmonics', window', popt')}
      ]_vars

\* a call returned a result with a harmonic whose fit moved away from the seed
C18_RefinedAwayFromSeed ==
    /\ pc = "returned"
    /\ harmonics >= 1
    /\ popt.w # p0.w /\ popt.phi # p0.phi
    /\ \E r \in ret : r[Key("ref w")] = popt.w /\ r[HKey("w", 1)] = popt.w

\* C19: read_channels leaves the acquisition state as it found it on every
\* way out, by return or by exception, and every curve is read while the
\* acquisition is stopped
C19_AcquisitionAsFound ==
    /\ rpc \in {"returned", "raised"} => acq = found
    /\ \A k \in 1..Len(curves) : curves[k] = "STOP"

\* C20: after any add_tab and remove_tab calls pages has one entry per tab
\* and pages[i] is the widget of tab i, none of them handed to deleteLater;
\* with a tab open the current index is one of the tabs, current_tab does
\* not raise, and what it returns is the widget of the selected tab
C20_PagesMatchTabs ==
    /\ Len(pages) = Len(tabs)
    /\ \A i \in 1..Len(tabs) : i <= Len(pages) /\ pages[i] = tabs[i] /\ pages[i] \notin deleted
    /\ tabs # <<>> => cur \in 0..(Len(tabs) - 1)
    /\ \A w \in picked : tabs # <<>> /\ w = tabs[cur + 1]
    /\ terr = "IndexError" => tabs = <<>>

\* a tab that was not the last one was closed, and current_tab was asked
\* with several tabs open and one that is not the newest selected
C20_PickedAfterClose ==
    /\ picked # {}
    /\ Len(tabs) >= 2 /\ cur < Len(tabs) - 1
    /\ \E w \in deleted : \E i \in 1..Len(tabs) : tabs[i] > w

\* draw_plot is about to run: at the end of the constructor, or on a
\* display whose buttons can be pressed
DrawPlotNext ==
    \/ dpc = "L128"
    \/ dpc = "L110" /\ dn > num_harmonics
    \/ dpc = "shown" /\ Len(data) = 3

\* C21: for any number of columns, any harmonic count >= 0 and any presses
\* of the two buttons, when draw_plot runs with detail_plot true the
\* constructor has set period, ref_delay, fund_delay, ref_fit1 and sig_fit,
\* so that it never ends in AttributeError; and a display that draws with
\* detail_plot true holds a fit.
C21_DetailAttributesSet ==
    ShapedCapture =>
        /\ DrawPlotNext /\ (detail_plot = "True" \/ dpc = "shown") =>
               {"period", "ref_delay", "fund_delay", "ref_fit1", "sig_fit"}
                   \subseteq attrs
        /\ derr # "AttributeError"
        /\ DrawPlotNext /\ detail_plot = "True" => self_harmonics # {}

\* C22: ethernet_acquire reads only from the scope object the most recent
\* identification returned; an identification that raised has cleared the
\* stored scope; after a setup inside ethernet_acquire that was cancelled
\* or failed the slot is over with nothing read and no tab added; and
\* ETH_IP holds nothing but the address of the last successful
\* identification.
C22_ReadsIdentifiedScope ==
    /\ \A k \in readFrom : k >= 1 /\ k = lastId /\ k = oscope
    /\ lastId = 0 => oscope = 0
    /\ HasScope => oscope = lastId
    /\ mpc = "idle" /\ viaAcquire /\ ~HasScope => readFrom = {} /\ ~added
    /\ added => readFrom # {} /\ got = "full"
    /\ ETH_IP = 0 => lastId \in {-1, 0} /\ ~HasScope
    /\ ETH_IP # 0 => ETH_IP \in 1..MaxScopes /\ lastId # -1
    /\ lastId >= 1 => ETH_IP = lastId

\* an acquire that had to set up first read from the scope just
\* identified and added a tab
C22_AcquiredAfterSetup ==
    /\ mpc = "idle" /\ viaAcquire /\ added
    /\ readFrom = {oscope} /\ oscope >= 2

\* C23: when read_channels gave fewer than 10 samples, ethernet_acquire
\* ends having shown the error dialog with the plain message, with no
\* exception raised by error_popup and no tab added
C23_NullDataReported ==
    mpc = "idle" /\ got = "short" =>
        /\ dialog = "message"
        /\ merr = ""
        /\ ~added

====
